---- MODULE Spec2Model ----
\* Model of the builtin command core of init (src/init/builtins.cpp) and of the
\* device-mapper control-block helpers (src/fs_mgr/fs_mgr_dm_ioctl.cpp).
\*
\* The control thread runs one builtin at a time.  A command goes from "idle"
\* to "done" in one step that performs the whole handler; NextCommand then
\* discards the transient invocation and moves on to the next script line.
\* Every call into an external collaborator (property store, trigger engine,
\* shutdown trigger, fs_mgr, keyring, bootloader message, service objects) is
\* recorded, in program order, in `trace`, together with the value it returned.
EXTENDS Integers, Sequences, FiniteSets, TLC

VARIABLES
    pc,                                 \* "idle" | "done" | "running" (inside a handler that never returns) | "aborted": position of the control thread
    inv,                                \* the invocation being reported: args (args[1] is the command name), context
    trace,                              \* external calls made by the command, in order
    result,                             \* Result<void> of the command
    initial_mount_fstab_return_code,    \* builtins.cpp:631
    late_import_paths,                  \* builtins.cpp:133
    services,                           \* ServiceList: service name -> set of class names
    is_apex_updatable,                  \* ApexProperties::updatable().value_or(false)
    io,                                 \* the caller's struct dm_ioctl, fs_mgr_dm_ioctl.cpp
    out_dev_name,                       \* the caller's std::string that *out_dev_name points to
    recorded_outcome                    \* history: what fs_mgr_mount_all returned in the latest mount_all that went on to queue_fs_event ("none": no such mount_all yet)

vars == <<pc, inv, trace, result, initial_mount_fstab_return_code,
          late_import_paths, services, is_apex_updatable, io, out_dev_name,
          recorded_outcome>>

-----------------------------------------------------------------------------
\* Bounds of the model.

\* Largest number of arguments (command name excluded) of a generic invocation.
MaxArgs == 7
\* Largest number of arguments (command name excluded) given to mount_all.
MaxMountAllArgs == 3
\* fs_mgr_mount_all() return codes range over -NegCodes .. MaxCode.
NegCodes == 2
MaxCode == 8
MaxMountExtra == 3
MaxLoops == 3
\* Largest number of arguments (command name excluded) given to insmod.
MaxInsmodArgs == 3

-----------------------------------------------------------------------------
\* Values and small helpers.

kInitContext == "u:r:init:s0"
kVendorContext == "u:r:vendor_init:s0"
Contexts == {kInitContext, kVendorContext}

\* Return codes of fs_mgr_mount_all() (fs_mgr.h), as tested by queue_fs_event.
FS_MGR_MNTALL_DEV_IS_METADATA_ENCRYPTED == 7
FS_MGR_MNTALL_DEV_NEEDS_METADATA_ENCRYPTION == 6
FS_MGR_MNTALL_DEV_FILE_ENCRYPTED == 5
FS_MGR_MNTALL_DEV_NEEDS_RECOVERY == 4
FS_MGR_MNTALL_DEV_NEEDS_ENCRYPTION == 3
FS_MGR_MNTALL_DEV_MIGHT_BE_ENCRYPTED == 2
FS_MGR_MNTALL_DEV_NOT_ENCRYPTED == 1
FS_MGR_MNTALL_DEV_NOT_ENCRYPTABLE == 0

Codes == (0 - NegCodes) .. MaxCode

\* std::numeric_limits<std::size_t>::max(): "no upper bound" (the largest
\* integer the checker represents stands for SIZE_MAX).
kMax == 2147483647

Digit(d) ==
    CASE d = 0 -> "0" [] d = 1 -> "1" [] d = 2 -> "2" [] d = 3 -> "3" [] d = 4 -> "4"
      [] d = 5 -> "5" [] d = 6 -> "6" [] d = 7 -> "7" [] d = 8 -> "8" [] d = 9 -> "9"

RECURSIVE NatToString(_)
NatToString(n) == IF n < 10 THEN Digit(n) ELSE NatToString(n \div 10) \o Digit(n % 10)

\* Decimal text of an int, as operator<<(int) and std::to_string print it.
to_string(n) == IF n < 0 THEN "-" \o NatToString(0 - n) ELSE NatToString(n)

BoolStr(b) == IF b THEN "true" ELSE "false"

\* One recorded external call: operation, argument, second argument or returned value.
Fx(op, a, b) == [op |-> op, a |-> a, b |-> b]

\* Result<void>
Ok == [ok |-> TRUE, msg |-> ""]
Error(m) == [ok |-> FALSE, msg |-> m]

\* What a handler hands back: its calls, its result and the module-level state it leaves.
Ret(fx, res) ==
    [fx |-> fx, res |-> res,
     code |-> initial_mount_fstab_return_code, lip |-> late_import_paths]

\* vector index as the source writes it: args[0] is the command name.
Arg(args, k) == args[k + 1]

-----------------------------------------------------------------------------
\* External collaborators, recorded as calls.

property_set(key, value) == Fx("property_set", key, value)
QueueEventTrigger(name) == Fx("QueueEventTrigger", name, "")
TriggerShutdown(command) == Fx("TriggerShutdown", command, "")

-----------------------------------------------------------------------------
\* reboot_into_recovery, builtins.cpp:137-152.
\* x.bootloader: write_bootloader_message succeeds; x.pid1: getpid() == 1.
reboot_into_recovery_unchecked(options, x) ==
    Ret(<<Fx("write_bootloader_message", options, IF x.bootloader THEN "ok" ELSE "fail"),
          IF x.pid1 THEN TriggerShutdown("reboot,recovery")
                    ELSE property_set("sys.powerctl", "reboot,recovery")>>,
        Ok)

reboot_into_recovery(options, x) ==
    IF ~x.bootloader
    THEN Ret(<<Fx("write_bootloader_message", options, "fail")>>,
             Error("Failed to set bootloader message: "))
    ELSE Ret(<<Fx("write_bootloader_message", options, "ok"),
               IF x.pid1 THEN TriggerShutdown("reboot,recovery")
                         ELSE property_set("sys.powerctl", "reboot,recovery")>>,
             Ok)

-----------------------------------------------------------------------------
\* queue_fs_event, builtins.cpp:550-629, one definition per branch of the
\* if / else-if chain.  x.keyring: FscryptInstallKeyring() succeeds;
\* x.gsi: android::gsi::IsGsiRunning().

kRemountOnFde == "reboot,requested-userdata-remount-on-fde-device"

\* builtins.cpp:551-560
queue_fs_event_NEEDS_ENCRYPTION(userdata_remount) ==
    Ret((IF userdata_remount THEN <<TriggerShutdown(kRemountOnFde)>> ELSE <<>>)
            \o <<QueueEventTrigger("encrypt")>>,
        Ok)

\* Mutant: the block row reports the file type.
queue_fs_event_MIGHT_BE_ENCRYPTED_as_file(userdata_remount) ==
    Ret((IF userdata_remount THEN <<TriggerShutdown(kRemountOnFde)>> ELSE <<>>)
            \o <<property_set("ro.crypto.state", "encrypted"),
                 property_set("ro.crypto.type", "file"),
                 QueueEventTrigger("defaultcrypto")>>,
        Ok)

\* builtins.cpp:561-572
queue_fs_event_MIGHT_BE_ENCRYPTED(userdata_remount) ==
    Ret((IF userdata_remount THEN <<TriggerShutdown(kRemountOnFde)>> ELSE <<>>)
            \o <<property_set("ro.crypto.state", "encrypted"),
                 property_set("ro.crypto.type", "block"),
                 QueueEventTrigger("defaultcrypto")>>,
        Ok)

\* Mutant: the NotEncrypted row writes the property and queues nothing.
queue_fs_event_NOT_ENCRYPTED_no_event ==
    Ret(<<property_set("ro.crypto.state", "unencrypted")>>, Ok)

\* builtins.cpp:573-576
queue_fs_event_NOT_ENCRYPTED ==
    Ret(<<property_set("ro.crypto.state", "unencrypted"),
          QueueEventTrigger("nonencrypted")>>,
        Ok)

\* Mutant: the NotEncrypted row copied without changing the value.
queue_fs_event_NOT_ENCRYPTABLE_copied ==
    Ret(<<property_set("ro.crypto.state", "unencrypted"),
          QueueEventTrigger("nonencrypted")>>,
        Ok)

\* builtins.cpp:577-580
queue_fs_event_NOT_ENCRYPTABLE ==
    Ret(<<property_set("ro.crypto.state", "unsupported"),
          QueueEventTrigger("nonencrypted")>>,
        Ok)

\* builtins.cpp:581-589
queue_fs_event_NEEDS_RECOVERY(x) ==
    IF x.gsi
    THEN Ret(<<Fx("IsGsiRunning", "", "true")>>, Error("cannot wipe within GSI"))
    ELSE LET r == reboot_into_recovery("--wipe_data --reason=fs_mgr_mount_all", x)
         IN  Ret(<<Fx("IsGsiRunning", "", "false")>> \o r.fx, r.res)

\* Mutant: the result of the keyring installation is not looked at.
queue_fs_event_FILE_ENCRYPTED_unchecked(userdata_remount, x) ==
    Ret((IF ~userdata_remount
         THEN <<Fx("FscryptInstallKeyring", "", IF x.keyring THEN "ok" ELSE "fail")>>
         ELSE <<>>)
            \o <<property_set("ro.crypto.state", "encrypted"),
                 property_set("ro.crypto.type", "file"),
                 QueueEventTrigger("nonencrypted")>>,
        Ok)

\* builtins.cpp:590-600
queue_fs_event_FILE_ENCRYPTED(userdata_remount, x) ==
    IF ~userdata_remount /\ ~x.keyring
    THEN Ret(<<Fx("FscryptInstallKeyring", "", "fail")>>,
             Error("FscryptInstallKeyring() failed"))
    ELSE Ret((IF ~userdata_remount THEN <<Fx("FscryptInstallKeyring", "", "ok")>> ELSE <<>>)
                \o <<property_set("ro.crypto.state", "encrypted"),
                     property_set("ro.crypto.type", "file"),
                     QueueEventTrigger("nonencrypted")>>,
             Ok)

\* Mutant: the keyring is installed after the properties are written.
queue_fs_event_IS_METADATA_ENCRYPTED_keyring_late(userdata_remount, x) ==
    IF ~userdata_remount /\ ~x.keyring
    THEN Ret(<<property_set("ro.crypto.state", "encrypted"),
               property_set("ro.crypto.type", "file"),
               Fx("FscryptInstallKeyring", "", "fail")>>,
             Error("FscryptInstallKeyring() failed"))
    ELSE Ret(<<property_set("ro.crypto.state", "encrypted"),
               property_set("ro.crypto.type", "file")>>
                \o (IF ~userdata_remount THEN <<Fx("FscryptInstallKeyring", "", "ok")>> ELSE <<>>)
                \o <<QueueEventTrigger("nonencrypted")>>,
             Ok)

\* builtins.cpp:601-611
queue_fs_event_IS_METADATA_ENCRYPTED(userdata_remount, x) ==
    IF ~userdata_remount /\ ~x.keyring
    THEN Ret(<<Fx("FscryptInstallKeyring", "", "fail")>>,
             Error("FscryptInstallKeyring() failed"))
    ELSE Ret((IF ~userdata_remount THEN <<Fx("FscryptInstallKeyring", "", "ok")>> ELSE <<>>)
                \o <<property_set("ro.crypto.state", "encrypted"),
                     property_set("ro.crypto.type", "file"),
                     QueueEventTrigger("nonencrypted")>>,
             Ok)

\* Mutant: the keyring is installed on a re-entry too.
queue_fs_event_NEEDS_METADATA_ENCRYPTION_always(userdata_remount, x) ==
    IF ~x.keyring
    THEN Ret(<<Fx("FscryptInstallKeyring", "", "fail")>>,
             Error("FscryptInstallKeyring() failed"))
    ELSE Ret(<<Fx("FscryptInstallKeyring", "", "ok"),
               property_set("ro.crypto.state", "encrypted"),
               property_set("ro.crypto.type", "file"),
               QueueEventTrigger("nonencrypted")>>,
             Ok)

\* builtins.cpp:612-622
queue_fs_event_NEEDS_METADATA_ENCRYPTION(userdata_remount, x) ==
    IF ~userdata_remount /\ ~x.keyring
    THEN Ret(<<Fx("FscryptInstallKeyring", "", "fail")>>,
             Error("FscryptInstallKeyring() failed"))
    ELSE Ret((IF ~userdata_remount THEN <<Fx("FscryptInstallKeyring", "", "ok")>> ELSE <<>>)
                \o <<property_set("ro.crypto.state", "encrypted"),
                     property_set("ro.crypto.type", "file"),
                     QueueEventTrigger("nonencrypted")>>,
             Ok)

\* Mutant: an unexpected positive code is ignored.
queue_fs_event_invalid_ignores_positive(code) ==
    IF code > 0
    THEN Ret(<<>>, Ok)
    ELSE Ret(<<>>, Error("Invalid code: " \o to_string(code)))

\* builtins.cpp:623-628: an unexpected positive code only builds (and drops) an
\* Error; every code that reaches this point returns "Invalid code".
queue_fs_event_invalid(code) ==
    Ret(<<>>, Error("Invalid code: " \o to_string(code)))

\* The chain itself.  The first recorded entry marks the call and its arguments.
queue_fs_event(code, userdata_remount, x) ==
    LET r == IF code = FS_MGR_MNTALL_DEV_NEEDS_ENCRYPTION
                THEN queue_fs_event_NEEDS_ENCRYPTION(userdata_remount)
             ELSE IF code = FS_MGR_MNTALL_DEV_MIGHT_BE_ENCRYPTED
                THEN queue_fs_event_MIGHT_BE_ENCRYPTED(userdata_remount)
             ELSE IF code = FS_MGR_MNTALL_DEV_NOT_ENCRYPTED
                THEN queue_fs_event_NOT_ENCRYPTED
             ELSE IF code = FS_MGR_MNTALL_DEV_NOT_ENCRYPTABLE
                THEN queue_fs_event_NOT_ENCRYPTABLE
             ELSE IF code = FS_MGR_MNTALL_DEV_NEEDS_RECOVERY
                THEN queue_fs_event_NEEDS_RECOVERY(x)
             ELSE IF code = FS_MGR_MNTALL_DEV_FILE_ENCRYPTED
                THEN queue_fs_event_FILE_ENCRYPTED(userdata_remount, x)
             ELSE IF code = FS_MGR_MNTALL_DEV_IS_METADATA_ENCRYPTED
                THEN queue_fs_event_IS_METADATA_ENCRYPTED(userdata_remount, x)
             ELSE IF code = FS_MGR_MNTALL_DEV_NEEDS_METADATA_ENCRYPTION
                THEN queue_fs_event_NEEDS_METADATA_ENCRYPTION(userdata_remount, x)
             ELSE queue_fs_event_invalid(code)
    IN  Ret(<<Fx("queue_fs_event", to_string(code), BoolStr(userdata_remount))>> \o r.fx,
            r.res)

-----------------------------------------------------------------------------
\* Mutant: the queue is the fallback only when end_index is below start_index.
import_late_strict(args, start_index, end_index) ==
    IF end_index < start_index
    THEN [fx  |-> [i \in 1 .. Len(late_import_paths) |->
                      Fx("ParseConfig", late_import_paths[i], "")],
          lip |-> <<>>]
    ELSE [fx  |-> [i \in 1 .. (end_index - start_index) |->
                      Fx("ParseConfig", Arg(args, start_index + i - 1), "")],
          lip |-> late_import_paths]

\* import_late, builtins.cpp:520-539.  Returns the ParseConfig calls and the
\* late_import_paths it leaves.
import_late(args, start_index, end_index) ==
    IF end_index <= start_index
    THEN [fx  |-> [i \in 1 .. Len(late_import_paths) |->
                      Fx("ParseConfig", late_import_paths[i], "")],
          lip |-> <<>>]
    ELSE [fx  |-> [i \in 1 .. (end_index - start_index) |->
                      Fx("ParseConfig", Arg(args, start_index + i - 1), "")],
          lip |-> late_import_paths]

\* do_mount_all, builtins.cpp:647-659: the option scan, from the last argument
\* down to index 2.
mount_all_options0(args) ==
    [path_arg_end |-> Len(args), import_rc |-> TRUE, queue_event |-> TRUE,
     mount_mode |-> "MOUNT_MODE_DEFAULT", prop_post_fix |-> "default"]

\* Mutant: --early leaves queue_event set.
mount_all_early_queues(o, na) ==
    [o EXCEPT !.path_arg_end = na,
              !.mount_mode = "MOUNT_MODE_EARLY", !.prop_post_fix = "early"]

\* The --early branch of the scan, builtins.cpp:648-652.
mount_all_early(o, na) ==
    [o EXCEPT !.path_arg_end = na, !.queue_event = FALSE,
              !.mount_mode = "MOUNT_MODE_EARLY", !.prop_post_fix = "early"]

RECURSIVE mount_all_scan(_, _, _)
mount_all_scan(args, na, o) ==
    IF na > 1
    THEN mount_all_scan(args, na - 1,
            IF Arg(args, na) = "--early"
            THEN mount_all_early(o, na)
            ELSE IF Arg(args, na) = "--late"
            THEN [o EXCEPT !.path_arg_end = na, !.import_rc = FALSE,
                           !.mount_mode = "MOUNT_MODE_LATE", !.prop_post_fix = "late"]
            ELSE o)
    ELSE o

\* do_mount_all once the fstab is read, builtins.cpp:669-687.  x.mount_rc:
\* what fs_mgr_mount_all returns; x.vendor_le_q: SelinuxGetVendorAndroidVersion()
\* <= __ANDROID_API_Q__, asked only when import_rc is set (&& short-circuits).
do_mount_all_mount(args, o, x) ==
        LET mount_fstab_return_code == x.mount_rc
            fstab_file == Arg(args, 1)
            imp == IF o.import_rc /\ x.vendor_le_q
                   THEN import_late(args, 2, o.path_arg_end)
                   ELSE [fx |-> <<>>, lip |-> late_import_paths]
            head == <<Fx("ReadFstabFromFile", fstab_file, "ok"),
                      Fx("fs_mgr_mount_all", o.mount_mode, to_string(mount_fstab_return_code)),
                      property_set("ro.boottime.init.mount_all." \o o.prop_post_fix,
                                   "duration")>>
                    \o (IF o.import_rc
                        THEN <<Fx("SelinuxGetVendorAndroidVersion", "",
                                  IF x.vendor_le_q THEN "le_q" ELSE "gt_q")>>
                        ELSE <<>>)
                    \o imp.fx
        IN  IF o.queue_event
            THEN LET q == queue_fs_event(mount_fstab_return_code, FALSE, x)
                 IN  [fx   |-> head \o q.fx,
                      res  |-> IF q.res.ok THEN Ok
                               ELSE Error("queue_fs_event() failed: " \o q.res.msg),
                      code |-> mount_fstab_return_code,
                      lip  |-> imp.lip]
            ELSE [fx |-> head, res |-> Ok,
                  code |-> initial_mount_fstab_return_code, lip |-> imp.lip]

\* Mutant: the deferred imports are done before the fstab is looked at.
do_mount_all_imports_first(args, context, x) ==
    LET o == mount_all_scan(args, Len(args) - 1, mount_all_options0(args))
        imp == import_late(args, 2, o.path_arg_end)
    IN  IF ~x.fstab
        THEN [fx   |-> <<Fx("ReadFstabFromFile", Arg(args, 1), "fail")>>,
              res  |-> Error("Could not read fstab"),
              code |-> initial_mount_fstab_return_code,
              lip  |-> imp.lip]
        ELSE do_mount_all_mount(args, o, x)

\* do_mount_all, builtins.cpp:638-688.  x.fstab: ReadFstabFromFile succeeds.
do_mount_all(args, context, x) ==
    LET o == mount_all_scan(args, Len(args) - 1, mount_all_options0(args))
        fstab_file == Arg(args, 1)
    IN  IF ~x.fstab
        THEN Ret(<<Fx("ReadFstabFromFile", fstab_file, "fail")>>,
                 Error("Could not read fstab"))
        ELSE do_mount_all_mount(args, o, x)

\* Mutant: the table is re-run on what the remount returned.
do_remount_userdata_remount_on_rc(x) ==
    IF ~x.default_fstab
    THEN Ret(<<Fx("ReadDefaultFstab", "", "fail")>>, Error("Failed to read fstab"))
    ELSE
    LET rc == x.remount_rc
        q  == queue_fs_event(rc, TRUE, x)
    IN  Ret(<<Fx("ReadDefaultFstab", "", "ok"),
              Fx("fs_mgr_remount_userdata_into_checkpointing", "", to_string(rc))>>
              \o (IF rc < 0 THEN <<TriggerShutdown("reboot,mount-userdata-failed")>> ELSE <<>>)
              \o q.fx,
            IF q.res.ok THEN Ok ELSE Error("queue_fs_event() failed: " \o q.res.msg))

\* do_remount_userdata past its first check, builtins.cpp:1144-1156.
\* x.default_fstab: ReadDefaultFstab succeeds; x.remount_rc: what
\* fs_mgr_remount_userdata_into_checkpointing returns.
do_remount_userdata_remount(x) ==
    IF ~x.default_fstab
    THEN Ret(<<Fx("ReadDefaultFstab", "", "fail")>>, Error("Failed to read fstab"))
    ELSE
    LET rc == x.remount_rc
        q  == queue_fs_event(initial_mount_fstab_return_code, TRUE, x)
    IN  Ret(<<Fx("ReadDefaultFstab", "", "ok"),
              Fx("fs_mgr_remount_userdata_into_checkpointing", "", to_string(rc))>>
              \o (IF rc < 0 THEN <<TriggerShutdown("reboot,mount-userdata-failed")>> ELSE <<>>)
              \o q.fx,
            IF q.res.ok THEN Ok ELSE Error("queue_fs_event() failed: " \o q.res.msg))

\* Mutant: no too-early check.
do_remount_userdata_unchecked(args, context, x) ==
    do_remount_userdata_remount(x)

\* do_remount_userdata, builtins.cpp:1140-1157.
do_remount_userdata(args, context, x) ==
    IF initial_mount_fstab_return_code = -1
    THEN Ret(<<>>, Error("Calling remount_userdata too early"))
    ELSE do_remount_userdata_remount(x)

-----------------------------------------------------------------------------
\* mount, builtins.cpp:426-514.

\* kCommandRetryTimeout, builtins.cpp:135, in seconds.
kCommandRetryTimeout == 5

\* The MS_* bits of <sys/mount.h> named by the table at builtins.cpp:426-446.
MS_RDONLY == 1
MS_NOSUID == 2
MS_NODEV == 4
MS_NOEXEC == 8
MS_REMOUNT == 32
MS_NOATIME == 1024
MS_NODIRATIME == 2048
MS_BIND == 4096
MS_REC == 16384
MS_UNBINDABLE == 131072
MS_PRIVATE == 262144
MS_SLAVE == 524288
MS_SHARED == 1048576

\* mount_flags, builtins.cpp:426-446, in table order (without the terminator).
mount_flags ==
    << [name |-> "noatime",    flag |-> MS_NOATIME],
       [name |-> "noexec",     flag |-> MS_NOEXEC],
       [name |-> "nosuid",     flag |-> MS_NOSUID],
       [name |-> "nodev",      flag |-> MS_NODEV],
       [name |-> "nodiratime", flag |-> MS_NODIRATIME],
       [name |-> "ro",         flag |-> MS_RDONLY],
       [name |-> "rw",         flag |-> 0],
       [name |-> "remount",    flag |-> MS_REMOUNT],
       [name |-> "bind",       flag |-> MS_BIND],
       [name |-> "rec",        flag |-> MS_REC],
       [name |-> "unbindable", flag |-> MS_UNBINDABLE],
       [name |-> "private",    flag |-> MS_PRIVATE],
       [name |-> "slave",      flag |-> MS_SLAVE],
       [name |-> "shared",     flag |-> MS_SHARED],
       [name |-> "defaults",   flag |-> 0] >>

\* a | b on unsigned values.
RECURSIVE BitOr(_, _)
BitOr(a, b) ==
    IF a = 0 THEN b
    ELSE IF b = 0 THEN a
    ELSE (IF a % 2 = 1 \/ b % 2 = 1 THEN 1 ELSE 0) + 2 * BitOr(a \div 2, b \div 2)

\* (flags & bit) != 0 for a one-bit mask.
HasBit(flags, bit) == (flags \div bit) % 2 = 1

\* The inner loop at builtins.cpp:458-463: the index at which the walk over
\* the table stops on arg; Len(mount_flags) + 1 is the terminator entry.
mount_flags_index(arg) ==
    IF \E i \in 1 .. Len(mount_flags) : mount_flags[i].name = arg
    THEN CHOOSE i \in 1 .. Len(mount_flags) :
             /\ mount_flags[i].name = arg
             /\ \A j \in 1 .. i - 1 : mount_flags[j].name # arg
    ELSE Len(mount_flags) + 1

\* const char* options, builtins.cpp:452: <<>> is nullptr, <<s>> points at s.
nullptr == <<>>

\* Whether the walk over the table stopped on an entry (mount_flags[i].name
\* is not null, builtins.cpp:464).
mount_flags_matched(i) == i <= Len(mount_flags)

\* Mutant: the bits of a matching token replace the bits collected so far.
mount_arg_flags_assign(flags, i) ==
    IF mount_flags_matched(i) THEN mount_flags[i].flag ELSE flags

\* builtins.cpp:459-462: flags |= mount_flags[i].flag on a match.
mount_arg_flags(flags, i) ==
    IF mount_flags_matched(i) THEN BitOr(flags, mount_flags[i].flag) ELSE flags

\* builtins.cpp:465-467: an unmatched "wait" sets wait.
mount_arg_wait(wait, arg, i) ==
    IF ~mount_flags_matched(i) /\ arg = "wait" THEN TRUE ELSE wait

\* Mutant: every unmatched token that is not "wait" becomes the option string.
mount_arg_options_any(options, arg, i, na, size) ==
    IF ~mount_flags_matched(i) /\ arg # "wait" THEN <<arg>> ELSE options

\* builtins.cpp:465-471: an unmatched token that is not "wait" becomes the
\* option string if it is the last argument, and is skipped otherwise.
mount_arg_options(options, arg, i, na, size) ==
    IF ~mount_flags_matched(i) /\ arg # "wait" /\ na + 1 = size
    THEN <<arg>>
    ELSE options

\* One round of the loop at builtins.cpp:456-473, i being where the inner
\* loop stopped.
mount_arg(p, arg, i, na, size) ==
    [flags   |-> mount_arg_flags(p.flags, i),
     wait    |-> mount_arg_wait(p.wait, arg, i),
     options |-> mount_arg_options(p.options, arg, i, na, size)]

\* The loop over args[4 ..], builtins.cpp:456-473.
RECURSIVE mount_scan(_, _, _)
mount_scan(args, na, p) ==
    IF na < Len(args)
    THEN mount_scan(args, na + 1,
                    mount_arg(p, Arg(args, na), mount_flags_index(Arg(args, na)),
                              na, Len(args)))
    ELSE p

StartsWith(s, prefix) ==
    Len(s) >= Len(prefix) /\ SubSeq(s, 1, Len(prefix)) = prefix

\* The mount(2) call: what it is given and what it returns ("ok" or the errno).
mount(source, target, system, flags, options, x) ==
    Fx("mount", [source |-> source, target |-> target, system |-> system],
       [flags |-> flags, options |-> options,
        ret |-> IF x.mount_errno = "" THEN "ok" ELSE x.mount_errno])

\* What loop device n answers, x.loops[n + 1]: "bound" (LOOP_GET_STATUS
\* succeeds), "error" (it fails, errno not ENXIO), "raced" (ENXIO, then
\* LOOP_SET_FD fails), "free" (ENXIO, LOOP_SET_FD succeeds); a device past the
\* end of x.loops answers x.loops_rest; an "absent" device cannot be opened.
loop_state(n, x) == IF n + 1 <= Len(x.loops) THEN x.loops[n + 1] ELSE x.loops_rest

\* Mutant: a LOOP_SET_FD that fails is followed by the mount.
loop_set_fd_failed_mounts(tmp) ==
    <<Fx("LOOP_SET_FD", tmp, "fail"),
      Fx("mount", [source |-> tmp, target |-> "/mnt", system |-> "ext4"],
         [flags |-> 0, options |-> nullptr, ret |-> "ok"])>>

\* LOOP_SET_FD on tmp fails, builtins.cpp:490: nothing more is done with tmp.
loop_set_fd_failed(tmp) == <<Fx("LOOP_SET_FD", tmp, "fail")>>

\* Mutant: a device whose status can be read is bound to all the same.
loop_skipped_rebinds(tmp, st, mode) ==
    <<Fx("open", tmp, [mode |-> mode, ret |-> "ok"])>>
    \o (IF st = "bound"
        THEN <<Fx("LOOP_GET_STATUS", tmp, "ok"), Fx("LOOP_SET_FD", tmp, "fail")>>
        ELSE IF st = "error" THEN <<Fx("LOOP_GET_STATUS", tmp, "EIO")>>
        ELSE <<Fx("LOOP_GET_STATUS", tmp, "ENXIO"), Fx("LOOP_SET_FD", tmp, "fail")>>)

\* One device that is opened and passed over, builtins.cpp:485-493: it is
\* bound, or its status cannot be read, or LOOP_SET_FD on it fails.
loop_skipped(tmp, st, mode) ==
    <<Fx("open", tmp, [mode |-> mode, ret |-> "ok"])>>
    \o (IF st = "bound" THEN <<Fx("LOOP_GET_STATUS", tmp, "ok")>>
        ELSE IF st = "error" THEN <<Fx("LOOP_GET_STATUS", tmp, "EIO")>>
        ELSE <<Fx("LOOP_GET_STATUS", tmp, "ENXIO")>> \o loop_set_fd_failed(tmp))

\* Mutant: a failed mount returns without LOOP_CLR_FD.
loop_taken_left_bound(tmp, fx, mode, args, p, x) ==
    LET got == fx \o <<Fx("open", tmp, [mode |-> mode, ret |-> "ok"]),
                       Fx("LOOP_GET_STATUS", tmp, "ENXIO"),
                       Fx("LOOP_SET_FD", tmp, "ok"),
                       mount(tmp, Arg(args, 3), Arg(args, 1), p.flags, p.options, x)>>
    IN  IF x.mount_errno # ""
        THEN Ret(got, Error("mount() failed: " \o x.mount_errno))
        ELSE Ret(got, Ok)

\* The device that becomes ours, builtins.cpp:485-499.  x.clr_ok: LOOP_CLR_FD
\* succeeds; when it fails, errno is its errno by the time ErrnoError() reads
\* it at builtins.cpp:496.
loop_taken(tmp, fx, mode, args, p, x) ==
    LET got == fx \o <<Fx("open", tmp, [mode |-> mode, ret |-> "ok"]),
                       Fx("LOOP_GET_STATUS", tmp, "ENXIO"),
                       Fx("LOOP_SET_FD", tmp, "ok"),
                       mount(tmp, Arg(args, 3), Arg(args, 1), p.flags, p.options, x)>>
    IN  IF x.mount_errno # ""
        THEN Ret(got \o <<Fx("LOOP_CLR_FD", tmp, IF x.clr_ok THEN "ok" ELSE "ENXIO")>>,
                 Error("mount() failed: "
                       \o (IF x.clr_ok THEN x.mount_errno ELSE "ENXIO")))
        ELSE Ret(got, Ok)

\* A device that cannot be opened ends the scan, builtins.cpp:487.
loop_unopened(tmp, fx, mode) ==
    Ret(fx \o <<Fx("open", tmp, [mode |-> mode, ret |-> "fail"])>>,
        Error("open(" \o tmp \o ", " \o mode \o ") failed: ENOENT"))

\* The result of a handler that never returns.
NoReturn == [ok |-> FALSE, msg |-> "<no return>"]

\* The scan over /dev/block/loop<n>, builtins.cpp:484-501, from device n on,
\* having made the calls fx.  The for loop has no condition: when device n and
\* every device after it is passed over, it goes round for ever and do_mount
\* does not return (fx is then the calls made before that endless tail).
\* Mutant: the scan gives up after the devices it was told about,
\* as if builtins.cpp:503 were reached.
loop_scan_exhausted(fx) == Ret(fx, Error("out of loopback devices"))

\* No device from here on ends the scan: for (n = 0;; n++) at builtins.cpp:484
\* has no exit but the returns at 487, 497 and 499.
loop_scan_endless(fx) == Ret(fx, NoReturn)

RECURSIVE mount_loop_scan(_, _, _, _, _, _)
mount_loop_scan(n, fx, mode, args, p, x) ==
    IF n >= Len(x.loops) /\ x.loops_rest \notin {"absent", "free"}
    THEN loop_scan_endless(fx)
    ELSE IF loop_state(n, x) = "absent"
    THEN loop_unopened("/dev/block/loop" \o to_string(n), fx, mode)
    ELSE IF loop_state(n, x) = "free"
    THEN loop_taken("/dev/block/loop" \o to_string(n), fx, mode, args, p, x)
    ELSE mount_loop_scan(n + 1,
                         fx \o loop_skipped("/dev/block/loop" \o to_string(n),
                                            loop_state(n, x), mode),
                         mode, args, p, x)

\* Mutant: ENOENT is dropped whatever the log severity.
ErrnoErrorIgnoreEnoent_any_severity(fx, msg, x) ==
    IF x.mount_errno # "ENOENT"
    THEN Ret(fx, Error(msg \o ": " \o x.mount_errno))
    ELSE Ret(fx \o <<Fx("GetMinimumLogSeverity", "", IF x.log_debug THEN "DEBUG" ELSE "INFO")>>,
             Ok)

\* ErrnoErrorIgnoreEnoent() << msg returned as a Result, builtins.cpp:100-131,
\* after the calls fx: the log severity is asked for only when errno is ENOENT
\* (&& at 106-107), and the error is then dropped if the severity is above DEBUG.
ErrnoErrorIgnoreEnoent(fx, msg, x) ==
    IF x.mount_errno # "ENOENT"
    THEN Ret(fx, Error(msg \o ": " \o x.mount_errno))
    ELSE IF x.log_debug
    THEN Ret(fx \o <<Fx("GetMinimumLogSeverity", "", "DEBUG")>>,
             Error(msg \o ": " \o x.mount_errno))
    ELSE Ret(fx \o <<Fx("GetMinimumLogSeverity", "", "INFO")>>, Ok)

\* The loop@ branch, builtins.cpp:480-503.  x.backing_open: the file behind
\* loop@ can be opened.
do_mount_loop(args, file, mode, p, x) ==
    IF ~x.backing_open
    THEN Ret(<<Fx("open", file, [mode |-> mode, ret |-> "fail"])>>,
             Error("open(" \o file \o ", " \o mode \o ") failed: ENOENT"))
    ELSE mount_loop_scan(0, <<Fx("open", file, [mode |-> mode, ret |-> "ok"])>>,
                         mode, args, p, x)

\* Mutant: a wait that timed out fails the command.
do_mount_direct_wait_checked(waited, call, x) ==
    IF \E i \in 1 .. Len(waited) : waited[i].b = "timeout"
    THEN Ret(waited, Error("wait_for_file() timed out"))
    ELSE IF x.mount_errno = ""
    THEN Ret(waited \o <<call>>, Ok)
    ELSE ErrnoErrorIgnoreEnoent(waited \o <<call>>, "mount() failed", x)

\* The direct branch, builtins.cpp:504-510, having made the calls waited.
\* x.mount_errno: errno of mount(2), "" when it succeeds; x.log_debug:
\* GetMinimumLogSeverity() <= DEBUG.
do_mount_direct(waited, call, x) ==
    IF x.mount_errno = ""
    THEN Ret(waited \o <<call>>, Ok)
    ELSE ErrnoErrorIgnoreEnoent(waited \o <<call>>, "mount() failed", x)

\* do_mount after the scan of its arguments, builtins.cpp:475-513.  x.wait_ok:
\* wait_for_file found the source in time (its result is not looked at).
do_mount_parsed(args, p, x) ==
    IF StartsWith(Arg(args, 2), "loop@")
    THEN do_mount_loop(args, SubSeq(Arg(args, 2), 6, Len(Arg(args, 2))),
                       IF HasBit(p.flags, MS_RDONLY) THEN "O_RDONLY" ELSE "O_RDWR",
                       p, x)
    ELSE do_mount_direct(IF p.wait
                         THEN <<Fx("wait_for_file",
                                   [path |-> Arg(args, 2), timeout |-> kCommandRetryTimeout],
                                   IF x.wait_ok THEN "ok" ELSE "timeout")>>
                         ELSE <<>>,
                         mount(Arg(args, 2), Arg(args, 3), Arg(args, 1),
                               p.flags, p.options, x),
                         x)

\* do_mount, builtins.cpp:451-514.
do_mount(args, context, x) ==
    do_mount_parsed(args,
                    mount_scan(args, 4, [flags |-> 0, wait |-> FALSE, options |-> nullptr]),
                    x)

-----------------------------------------------------------------------------
\* Service-class control, builtins.cpp:154-229.  The service collection is
\* iterated in list order; x.svc_fail is the set of services whose start fails.

Services == {"s1", "s2"}
Classes == {"main", "late_start"}
ServiceOrder == <<"s1", "s2">>

\* The services, in list order, whose class-tag set contains classname.
InClass(classname) ==
    SelectSeq(ServiceOrder, LAMBDA s : classname \in services[s])

\* Mutant: the class-tag test is missing, every service is visited.
ForEachService(classname, function) ==
    [i \in 1 .. Len(ServiceOrder) |-> Fx(function, ServiceOrder[i], "")]

\* ForEachServiceInClass, builtins.cpp:154-159
ForEachServiceInClass(classname, function) ==
    [i \in 1 .. Len(InClass(classname)) |-> Fx(function, InClass(classname)[i], "")]

\* Mutant: the loop ends at the first start that fails.
StartEach_until_failure(classname, function, x) ==
    LET all == [i \in 1 .. Len(InClass(classname)) |->
                   Fx(function, InClass(classname)[i],
                      IF InClass(classname)[i] \in x.svc_fail THEN "fail" ELSE "ok")]
        bad == {i \in 1 .. Len(all) : all[i].b = "fail"}
    IN  IF bad = {} THEN all
        ELSE SubSeq(all, 1, CHOOSE i \in bad : \A j \in bad : i <= j)

\* The start loops of do_class_start / do_class_start_post_data: every member
\* is started; a failed start is only logged.
StartEach(classname, function, x) ==
    [i \in 1 .. Len(InClass(classname)) |->
        Fx(function, InClass(classname)[i],
           IF InClass(classname)[i] \in x.svc_fail THEN "fail" ELSE "ok")]

\* Mutant: the property is read and the class is started all the same.
do_class_start_ungated(args, context, x) ==
    Ret(<<Fx("GetBoolProperty", "persist.init.dont_start_class." \o Arg(args, 1),
             IF x.dont_start THEN "true" ELSE "false")>>
           \o StartEach(Arg(args, 1), "StartIfNotDisabled", x),
        Ok)

\* do_class_start, builtins.cpp:161-176.  x.dont_start: the value of
\* persist.init.dont_start_class.<class>.
do_class_start(args, context, x) ==
    IF x.dont_start
    THEN Ret(<<Fx("GetBoolProperty", "persist.init.dont_start_class." \o Arg(args, 1), "true")>>,
             Ok)
    ELSE Ret(<<Fx("GetBoolProperty", "persist.init.dont_start_class." \o Arg(args, 1), "false")>>
                \o StartEach(Arg(args, 1), "StartIfNotDisabled", x),
             Ok)

\* Mutant: the context check is missing.
do_class_start_post_data_any_context(args, context, x) ==
    IF ~is_apex_updatable
    THEN Ret(<<>>, Ok)
    ELSE Ret(StartEach(Arg(args, 1), "StartIfPostData", x), Ok)

\* do_class_start_post_data, builtins.cpp:178-198
do_class_start_post_data(args, context, x) ==
    IF context # kInitContext
    THEN Ret(<<>>, Error("command 'class_start_post_data' only available in init context"))
    ELSE IF ~is_apex_updatable
    THEN Ret(<<>>, Ok)
    ELSE Ret(StartEach(Arg(args, 1), "StartIfPostData", x), Ok)

\* do_class_stop, builtins.cpp:200-203
do_class_stop(args, context, x) ==
    Ret(ForEachServiceInClass(Arg(args, 1), "Stop"), Ok)

\* do_class_reset, builtins.cpp:205-208
do_class_reset(args, context, x) ==
    Ret(ForEachServiceInClass(Arg(args, 1), "Reset"), Ok)

\* Mutant: the apex-updatable flag is not looked at.
do_class_reset_post_data_any_platform(args, context, x) ==
    IF context # kInitContext
    THEN Ret(<<>>, Error("command 'class_reset_post_data' only available in init context"))
    ELSE Ret(ForEachServiceInClass(Arg(args, 1), "ResetIfPostData"), Ok)

\* do_class_reset_post_data, builtins.cpp:210-221
do_class_reset_post_data(args, context, x) ==
    IF context # kInitContext
    THEN Ret(<<>>, Error("command 'class_reset_post_data' only available in init context"))
    ELSE IF ~is_apex_updatable
    THEN Ret(<<>>, Ok)
    ELSE Ret(ForEachServiceInClass(Arg(args, 1), "ResetIfPostData"), Ok)

\* do_class_restart, builtins.cpp:223-229
do_class_restart(args, context, x) ==
    IF x.dont_start
    THEN Ret(<<Fx("GetBoolProperty", "persist.init.dont_start_class." \o Arg(args, 1), "true")>>,
             Ok)
    ELSE Ret(<<Fx("GetBoolProperty", "persist.init.dont_start_class." \o Arg(args, 1), "false")>>
                \o ForEachServiceInClass(Arg(args, 1), "Restart"),
             Ok)

-----------------------------------------------------------------------------
\* insmod, builtins.cpp:323-342.

\* The result of a handler in which the process died.
Crashed == [ok |-> FALSE, msg |-> "<crashed>"]

\* android::base::Join(v, ' ')
RECURSIVE Join(_)
Join(v) ==
    IF v = <<>> THEN ""
    ELSE IF Len(v) = 1 THEN v[1]
    ELSE v[1] \o " " \o Join(Tail(v))

\* One dereference of the iterator at C++ index k: the argument there, or,
\* at or past args.end(), whatever is in memory there.
deref(args, k, x) ==
    IF k < Len(args) THEN Fx("args", k, Arg(args, k)) ELSE Fx("args", k, x.past_end)

\* do_insmod from the open() on, builtins.cpp:335-341.  x.module_open: the
\* module file can be opened; x.finit_ok: finit_module succeeds.
do_insmod_load(fx, filename, options, flags, x) ==
    IF ~x.module_open
    THEN Ret(fx \o <<Fx("open", filename, [mode |-> "O_RDONLY", ret |-> "fail"])>>,
             Error("open(\"" \o filename \o "\") failed: ENOENT"))
    ELSE IF ~x.finit_ok
    THEN Ret(fx \o <<Fx("open", filename, [mode |-> "O_RDONLY", ret |-> "ok"]),
                     Fx("finit_module", filename, [options |-> options, flags |-> flags, ret |-> -1])>>,
             Error("finit_module for \"" \o filename \o "\" failed: ENOEXEC"))
    ELSE Ret(fx \o <<Fx("open", filename, [mode |-> "O_RDONLY", ret |-> "ok"]),
                     Fx("finit_module", filename, [options |-> options, flags |-> flags, ret |-> 0])>>,
             Ok)

\* do_insmod, builtins.cpp:323-342.  it is the C++ index the iterator stands
\* at when the file name is read (begin() + 1, or + 2 after "-f"); nothing
\* compares it with args.end().  Reading at args.end() is undefined: the
\* process dies there (x.past_end = "<crash>"), or the read yields the bytes
\* found there and the range (it, args.end()) built next, whose begin lies
\* behind its end, kills it or comes out empty (x.past_range).
do_insmod(args, context, x) ==
    LET force == Arg(args, 1) = "-f"
        it == IF force THEN 2 ELSE 1
        flags == IF force THEN 3 ELSE 0
        tested == <<deref(args, 1, x)>>
    IN  IF it < Len(args)
        THEN do_insmod_load(tested \o <<deref(args, it, x)>>, Arg(args, it),
                            Join(SubSeq(args, it + 2, Len(args))), flags, x)
        ELSE IF x.past_end = "<crash>"
        THEN Ret(tested \o <<deref(args, it, x)>>, Crashed)
        ELSE IF x.past_range = "<crash>"
        THEN Ret(tested \o <<deref(args, it, x)>>, Crashed)
        ELSE do_insmod_load(tested \o <<deref(args, it, x)>>, x.past_end, "", flags, x)

-----------------------------------------------------------------------------
\* Device-mapper ioctl helpers, fs_mgr_dm_ioctl.cpp.  A struct dm_ioctl is a
\* record of the fields the helpers write and of dev and flags, which stand
\* for what the kernel writes back; name is the C string in the name field.

\* sizeof(struct dm_ioctl), fs_mgr_dm_ioctl.cpp:28, and sizeof(io->name),
\* fs_mgr_dm_ioctl.cpp:34 (DM_NAME_LEN), as <linux/dm-ioctl.h> lays it out.
sizeof_dm_ioctl == 312
sizeof_io_name == 128

\* A struct dm_ioctl of zero bytes: what memset(io, 0, size) leaves.
NoIo == [data_size |-> 0, data_start |-> 0, version |-> <<0, 0, 0>>, flags |-> 0,
         name |-> "", dev |-> 0]

\* a & b on non-negative ints.
RECURSIVE BitAnd(_, _)
BitAnd(a, b) ==
    IF a = 0 \/ b = 0 THEN 0
    ELSE (IF a % 2 = 1 /\ b % 2 = 1 THEN 1 ELSE 0) + 2 * BitAnd(a \div 2, b \div 2)

\* a >> k on non-negative ints.
ShiftRight(a, k) == a \div (2 ^ k)

\* The C string strlcpy(dst, src, size) leaves in dst: at most size - 1
\* characters of src, NUL-terminated.
strlcpy(src, size) ==
    IF Len(src) <= size - 1 THEN src ELSE SubSeq(src, 1, size - 1)

\* Mutant: the block is not zeroed first; what the header stamps and the
\* name copy do not overwrite stays as the caller's buffer had it.
fs_mgr_dm_ioctl_init_no_memset(buf, size, name) ==
    [buf EXCEPT !.data_size = size,
                !.data_start = sizeof_dm_ioctl,
                !.version = <<4, 0, 0>>,
                !.name = IF name # "" THEN strlcpy(name, sizeof_io_name) ELSE @]

\* fs_mgr_dm_ioctl_init, fs_mgr_dm_ioctl.cpp:26-36, on a buffer holding buf:
\* memset to zero, then the header fields; an empty name leaves the zeroed
\* name field.
fs_mgr_dm_ioctl_init(buf, size, name) ==
    [NoIo EXCEPT !.data_size = size,
                 !.data_start = sizeof_dm_ioctl,
                 !.version = <<4, 0, 0>>,
                 !.name = IF name # "" THEN strlcpy(name, sizeof_io_name) ELSE @]

\* ioctl(fd, request, io) on the block b.  k: what the kernel does: its return
\* value and, when that is 0, the dev and flags it stores in *io.  The call is
\* recorded with the block as handed over.
dm_ioctl(request, b, k) ==
    [fx |-> <<Fx("ioctl", [request |-> request, io |-> b], k)>>,
     io |-> IF k.ret = 0 THEN [b EXCEPT !.dev = k.dev, !.flags = k.flags] ELSE b,
     ret |-> k.ret]

\* The body shared by the four helpers: init, then one request;
\* false when the ioctl returns non-zero.
dm_request(buf, name, request, k) ==
    dm_ioctl(request, fs_mgr_dm_ioctl_init(buf, sizeof_dm_ioctl, name), k)

\* fs_mgr_dm_create_device, fs_mgr_dm_ioctl.cpp:38-45
fs_mgr_dm_create_device(buf, name, k) ==
    [fx |-> dm_request(buf, name, "DM_DEV_CREATE", k).fx,
     io |-> dm_request(buf, name, "DM_DEV_CREATE", k).io,
     ret |-> dm_request(buf, name, "DM_DEV_CREATE", k).ret = 0]

\* fs_mgr_dm_destroy_device, fs_mgr_dm_ioctl.cpp:47-54
fs_mgr_dm_destroy_device(buf, name, k) ==
    [fx |-> dm_request(buf, name, "DM_DEV_REMOVE", k).fx,
     io |-> dm_request(buf, name, "DM_DEV_REMOVE", k).io,
     ret |-> dm_request(buf, name, "DM_DEV_REMOVE", k).ret = 0]

\* fs_mgr_dm_resume_table, fs_mgr_dm_ioctl.cpp:72-79
fs_mgr_dm_resume_table(buf, name, k) ==
    [fx |-> dm_request(buf, name, "DM_DEV_SUSPEND", k).fx,
     io |-> dm_request(buf, name, "DM_DEV_SUSPEND", k).io,
     ret |-> dm_request(buf, name, "DM_DEV_SUSPEND", k).ret = 0]

\* Mutant: the minor's high bits are taken from 8 bits up instead of 12.
dev_num_shift8(dev) ==
    BitOr(BitAnd(dev, 255), BitAnd(ShiftRight(dev, 8), 1048320))

\* int dev_num = (io->dev & 0xff) | ((io->dev >> 12) & 0xfff00);
\* fs_mgr_dm_ioctl.cpp:66
dev_num(dev) ==
    BitOr(BitAnd(dev, 255), BitAnd(ShiftRight(dev, 12), 1048320))

\* fs_mgr_dm_get_device_name, fs_mgr_dm_ioctl.cpp:56-70, called with a
\* non-null out_dev_name whose string holds out.
fs_mgr_dm_get_device_name(buf, name, k, out) ==
    [fx |-> dm_request(buf, name, "DM_DEV_STATUS", k).fx,
     io |-> dm_request(buf, name, "DM_DEV_STATUS", k).io,
     out_dev_name |-> IF k.ret # 0
                      THEN out
                      ELSE "/dev/block/dm-"
                             \o to_string(dev_num(dm_request(buf, name, "DM_DEV_STATUS", k).io.dev)),
     ret |-> k.ret = 0]

-----------------------------------------------------------------------------
\* The command registry, builtins.cpp:1227-1292: name -> <<min_args, max_args, flag>>.

BuiltinFunctionMap ==
    [bootchart              |-> <<1, 1,    FALSE>>,
     chmod                  |-> <<2, 2,    TRUE>>,
     chown                  |-> <<2, 3,    TRUE>>,
     class_reset            |-> <<1, 1,    FALSE>>,
     class_reset_post_data  |-> <<1, 1,    FALSE>>,
     class_restart          |-> <<1, 1,    FALSE>>,
     class_start            |-> <<1, 1,    FALSE>>,
     class_start_post_data  |-> <<1, 1,    FALSE>>,
     class_stop             |-> <<1, 1,    FALSE>>,
     copy                   |-> <<2, 2,    TRUE>>,
     domainname             |-> <<1, 1,    TRUE>>,
     enable                 |-> <<1, 1,    FALSE>>,
     exec                   |-> <<1, kMax, FALSE>>,
     exec_background        |-> <<1, kMax, FALSE>>,
     exec_start             |-> <<1, 1,    FALSE>>,
     export                 |-> <<2, 2,    FALSE>>,
     hostname               |-> <<1, 1,    TRUE>>,
     ifup                   |-> <<1, 1,    TRUE>>,
     init_user0             |-> <<0, 0,    FALSE>>,
     insmod                 |-> <<1, kMax, TRUE>>,
     installkey             |-> <<1, 1,    FALSE>>,
     interface_restart      |-> <<1, 1,    FALSE>>,
     interface_start        |-> <<1, 1,    FALSE>>,
     interface_stop         |-> <<1, 1,    FALSE>>,
     load_persist_props     |-> <<0, 0,    FALSE>>,
     load_system_props      |-> <<0, 0,    FALSE>>,
     loglevel               |-> <<1, 1,    FALSE>>,
     mark_post_data         |-> <<0, 0,    FALSE>>,
     mkdir                  |-> <<1, 6,    TRUE>>,
     mount_all              |-> <<1, kMax, FALSE>>,
     mount                  |-> <<3, kMax, FALSE>>,
     parse_apex_configs     |-> <<0, 0,    FALSE>>,
     umount                 |-> <<1, 1,    FALSE>>,
     umount_all             |-> <<1, 1,    FALSE>>,
     readahead              |-> <<1, 2,    TRUE>>,
     remount_userdata       |-> <<0, 0,    FALSE>>,
     restart                |-> <<1, 1,    FALSE>>,
     restorecon             |-> <<1, kMax, TRUE>>,
     restorecon_recursive   |-> <<1, kMax, TRUE>>,
     rm                     |-> <<1, 1,    TRUE>>,
     rmdir                  |-> <<1, 1,    TRUE>>,
     setprop                |-> <<2, 2,    TRUE>>,
     setrlimit              |-> <<3, 3,    FALSE>>,
     start                  |-> <<1, 1,    FALSE>>,
     stop                   |-> <<1, 1,    FALSE>>,
     swapon_all             |-> <<1, 1,    FALSE>>,
     enter_default_mount_ns |-> <<0, 0,    FALSE>>,
     symlink                |-> <<2, 2,    TRUE>>,
     sysclktz               |-> <<1, 1,    FALSE>>,
     trigger                |-> <<1, 1,    FALSE>>,
     verity_update_state    |-> <<0, 0,    FALSE>>,
     wait                   |-> <<1, 2,    TRUE>>,
     wait_for_prop          |-> <<2, 2,    FALSE>>,
     write                  |-> <<2, 2,    TRUE>>]

min_args(name) == BuiltinFunctionMap[name][1]
max_args(name) == BuiltinFunctionMap[name][2]

\* A handler of the registry whose body is a thin wrapper: it is entered and
\* returns what the wrapped call returns (x.handler_ok).
do_other(args, context, x) ==
    Ret(<<>>, IF x.handler_ok THEN Ok ELSE Error("failed"))

\* The registry's handler column.
Handler(args, context, x) ==
    CASE args[1] = "mount_all"             -> do_mount_all(args, context, x)
      [] args[1] = "mount"                 -> do_mount(args, context, x)
      [] args[1] = "remount_userdata"      -> do_remount_userdata(args, context, x)
      [] args[1] = "insmod"                -> do_insmod(args, context, x)
      [] args[1] = "class_start"           -> do_class_start(args, context, x)
      [] args[1] = "class_start_post_data" -> do_class_start_post_data(args, context, x)
      [] args[1] = "class_stop"            -> do_class_stop(args, context, x)
      [] args[1] = "class_reset"           -> do_class_reset(args, context, x)
      [] args[1] = "class_reset_post_data" -> do_class_reset_post_data(args, context, x)
      [] args[1] = "class_restart"         -> do_class_restart(args, context, x)
      [] OTHER                             -> do_other(args, context, x)

\* Mutant: only the lower bound is checked.
FindFunction_no_upper_bound(args) ==
    IF args[1] \notin DOMAIN BuiltinFunctionMap
    THEN Error("UnknownCommand")
    ELSE IF Len(args) - 1 < min_args(args[1])
    THEN Error("ArityError")
    ELSE Ok

\* The dispatcher's lookup (spec section 4.1): unknown names and argument
\* counts outside [min_args, max_args] are refused before any handler runs.
FindFunction(args) ==
    IF args[1] \notin DOMAIN BuiltinFunctionMap
    THEN Error("UnknownCommand")
    ELSE IF Len(args) - 1 < min_args(args[1]) \/ Len(args) - 1 > max_args(args[1])
    THEN Error("ArityError")
    ELSE Ok

\* The dispatcher (spec section 4.1): look up, validate, then enter the handler.
\* Entering the handler is recorded as the first entry of the trace.
InvokeFunc(args, context, x) ==
    IF ~FindFunction(args).ok
    THEN Ret(<<>>, FindFunction(args))
    ELSE LET r == Handler(args, context, x)
         IN  [r EXCEPT !.fx = <<Fx("handler", args[1], "")>> \o r.fx]

-----------------------------------------------------------------------------
\* Inputs: argument lists and the answers of the external collaborators.

ArgLists(T, n) == UNION {[1 .. k -> T] : k \in 0 .. n}

Fill(n) == [i \in 1 .. n |-> "a"]

MountAllTokens == {"/a", "/b", "--early", "--late"}

InsmodTokens == {"-f", "/vendor/lib/modules/m.ko", "debug=1"}

LateImportQueues == {<<>>, <<"/queued.rc">>}

\* mount lines: every name of the flag table, "wait", and two tokens that are
\* neither, up to MaxMountExtra of them after the (type, source, target) triple.
MountTokens ==
    {mount_flags[i].name : i \in 1 .. Len(mount_flags)} \cup {"wait", "data=ordered", "bogus"}

MountTriple == <<"ext4", "/dev/block/sda1", "/mnt">>
LoopTriple == <<"ext4", "loop@/system/img", "/mnt">>

\* The lines used where the answers of the system vary instead.
MountLines == {<<>>, <<"wait">>, <<"ro">>, <<"noatime", "wait", "data=ordered">>}

MountErrnos == {"", "ENOENT", "EINVAL"}

LoopStates == {"absent", "bound", "error", "raced", "free"}

RemountCodes == {-1, 0}

DefEnv ==
    [fstab |-> TRUE, mount_rc |-> 0, vendor_le_q |-> TRUE, keyring |-> TRUE,
     gsi |-> FALSE, bootloader |-> TRUE, pid1 |-> TRUE, default_fstab |-> TRUE,
     remount_rc |-> 0, svc_fail |-> {}, dont_start |-> FALSE, handler_ok |-> TRUE,
     backing_open |-> TRUE, loops |-> <<"free">>, loops_rest |-> "absent",
     clr_ok |-> TRUE, wait_ok |-> TRUE,
     mount_errno |-> "", log_debug |-> FALSE,
     module_open |-> TRUE, finit_ok |-> TRUE, past_end |-> "<crash>", past_range |-> "<crash>"]

\* The answers queue_fs_event can ask for on the branch of `code`, on top of e.
BranchEnv(code, e) ==
    IF code \in {FS_MGR_MNTALL_DEV_FILE_ENCRYPTED, FS_MGR_MNTALL_DEV_IS_METADATA_ENCRYPTED,
                 FS_MGR_MNTALL_DEV_NEEDS_METADATA_ENCRYPTION}
    THEN {[e EXCEPT !.keyring = k] : k \in BOOLEAN}
    ELSE IF code = FS_MGR_MNTALL_DEV_NEEDS_RECOVERY
    THEN {[e EXCEPT !.gsi = TRUE], [e EXCEPT !.bootloader = FALSE],
          [e EXCEPT !.pid1 = TRUE], [e EXCEPT !.pid1 = FALSE]}
    ELSE {e}

MountAllEnvs ==
    {[DefEnv EXCEPT !.fstab = FALSE]} \cup
    UNION {BranchEnv(rc, [DefEnv EXCEPT !.mount_rc = rc, !.vendor_le_q = v]) :
              rc \in Codes, v \in BOOLEAN}

RemountEnvs ==
    {[DefEnv EXCEPT !.default_fstab = FALSE]} \cup
    UNION {BranchEnv(initial_mount_fstab_return_code, [DefEnv EXCEPT !.remount_rc = r]) :
              r \in RemountCodes}

ClassCommands ==
    {"class_start", "class_start_post_data", "class_stop", "class_reset",
     "class_reset_post_data", "class_restart"}

ServiceConfigs == [Services -> SUBSET Classes]

-----------------------------------------------------------------------------
\* The state machine.

NoInv == [args |-> <<>>, context |-> ""]
NoResult == [ok |-> TRUE, msg |-> "none"]

\* No device-mapper call has been made: the caller's buffers are untouched.
NoDm ==
    /\ io = NoIo
    /\ out_dev_name = ""

Idle ==
    /\ pc = "idle"
    /\ inv = NoInv
    /\ trace = <<>>
    /\ result = NoResult

Init ==
    /\ Idle
    /\ initial_mount_fstab_return_code = -1
    /\ late_import_paths \in LateImportQueues
    /\ services = [s \in Services |-> IF s = "s1" THEN {"main"} ELSE {"main", "late_start"}]
    /\ is_apex_updatable = FALSE
    /\ NoDm
    /\ recorded_outcome = "none"

InitSvc ==
    /\ Idle
    /\ initial_mount_fstab_return_code = -1
    /\ late_import_paths = <<>>
    /\ services \in ServiceConfigs
    /\ is_apex_updatable \in BOOLEAN
    /\ NoDm
    /\ recorded_outcome = "none"

\* What the external calls of one command show about the outcome handed to
\* the state machine by mount_all: the value fs_mgr_mount_all returned, when
\* the same command went on to call queue_fs_event; otherwise the earlier one.
Observed(fx, before) ==
    IF /\ \E i \in 1 .. Len(fx) : fx[i].op = "fs_mgr_mount_all"
       /\ \E i \in 1 .. Len(fx) : fx[i].op = "queue_fs_event"
    THEN fx[CHOOSE i \in 1 .. Len(fx) : fx[i].op = "fs_mgr_mount_all"].b
    ELSE before

\* The control thread executes one parsed line: the whole dispatch and handler.
Run(args, context, x) ==
    \E r \in {InvokeFunc(args, context, x)} :
        /\ pc' = IF r.res = NoReturn THEN "running"
                 ELSE IF r.res = Crashed THEN "aborted"
                 ELSE "done"
        /\ recorded_outcome' = Observed(r.fx, recorded_outcome)
        /\ inv' = [args |-> args, context |-> context]
        /\ trace' = r.fx
        /\ result' = IF r.res \in {NoReturn, Crashed} THEN NoResult ELSE r.res
        /\ initial_mount_fstab_return_code' = r.code
        /\ late_import_paths' = r.lip
        /\ UNCHANGED <<services, is_apex_updatable, io, out_dev_name>>

\* The invocation is consumed; boot continues with the next script line.
NextCommand ==
    /\ pc = "done"
    /\ pc' = "idle"
    /\ inv' = NoInv
    /\ trace' = <<>>
    /\ result' = NoResult
    /\ UNCHANGED <<initial_mount_fstab_return_code, late_import_paths, services,
                   is_apex_updatable, io, out_dev_name, recorded_outcome>>

\* mount_all and remount_userdata never read args.context (builtins.cpp:638-688,
\* 1140-1157); their lines are taken from the init context.
MountAll ==
    /\ pc = "idle"
    /\ \E args \in ArgLists(MountAllTokens, MaxMountAllArgs), x \in MountAllEnvs :
           Run(<<"mount_all">> \o args, kInitContext, x)

RemountUserdata ==
    /\ pc = "idle"
    /\ \E n \in 0 .. 1, x \in RemountEnvs :
           Run(<<"remount_userdata">> \o Fill(n), kInitContext, x)

ClassCommand ==
    /\ pc = "idle"
    /\ \E name \in ClassCommands, n \in 0 .. 2, class \in Classes, context \in Contexts,
          fail \in SUBSET Services, ds \in BOOLEAN :
           Run(<<name>> \o [i \in 1 .. n |-> class], context,
               [DefEnv EXCEPT !.svc_fail = fail, !.dont_start = ds])

\* Any line at all: every registered name and an unregistered one, with every
\* argument count up to MaxArgs.
AnyCommand ==
    /\ pc = "idle"
    /\ \E name \in DOMAIN BuiltinFunctionMap \cup {"frobnicate"}, n \in 0 .. MaxArgs,
          context \in Contexts, ok \in BOOLEAN :
           Run(<<name>> \o Fill(n), context, [DefEnv EXCEPT !.handler_ok = ok])

\* insmod lines over InsmodTokens, with every answer of the system.
Insmod ==
    /\ pc = "idle"
    /\ \E line \in ArgLists(InsmodTokens, MaxInsmodArgs), open \in BOOLEAN, finit \in BOOLEAN,
          past \in {"<crash>", "<garbage>"}, range \in {"<crash>", "<empty>"} :
           Run(<<"insmod">> \o line, kInitContext,
               [DefEnv EXCEPT !.module_open = open, !.finit_ok = finit,
                              !.past_end = past, !.past_range = range])

Next ==
    \/ NextCommand
    \/ MountAll
    \/ Insmod
    \/ RemountUserdata
    \/ ClassCommand
    \/ AnyCommand

Spec == Init /\ [][Next]_vars

NextSvc ==
    \/ NextCommand
    \/ ClassCommand

SpecSvc == InitSvc /\ [][NextSvc]_vars

\* mount lines.  do_mount reads neither args.context nor any variable.
InitMount ==
    /\ Idle
    /\ initial_mount_fstab_return_code = -1
    /\ late_import_paths = <<>>
    /\ services = [s \in Services |-> {"main"}]
    /\ is_apex_updatable = FALSE
    /\ NoDm
    /\ recorded_outcome = "none"

\* Every line over MountTokens, mounted directly with mount(2) succeeding.
Mount ==
    /\ pc = "idle"
    /\ \E extra \in ArgLists(MountTokens, MaxMountExtra) :
           Run(<<"mount">> \o MountTriple \o extra, kInitContext, DefEnv)

\* A direct mount under every answer of wait_for_file and mount(2).
MountDirect ==
    /\ pc = "idle"
    /\ \E extra \in MountLines, e \in MountErrnos, w \in BOOLEAN, d \in BOOLEAN :
           Run(<<"mount">> \o MountTriple \o extra, kInitContext,
               [DefEnv EXCEPT !.mount_errno = e, !.wait_ok = w, !.log_debug = d])

\* A loop@ mount over every state of the first MaxLoops loop devices.
MountLoop ==
    /\ pc = "idle"
    /\ \E extra \in MountLines, o \in BOOLEAN, l \in ArgLists(LoopStates, MaxLoops),
          rest \in LoopStates \ {"free"}, e \in MountErrnos, c \in BOOLEAN :
           Run(<<"mount">> \o LoopTriple \o extra, kInitContext,
               [DefEnv EXCEPT !.backing_open = o, !.loops = l, !.loops_rest = rest,
                              !.mount_errno = e, !.clr_ok = c])

NextMount ==
    \/ NextCommand
    \/ Mount
    \/ MountDirect
    \/ MountLoop

SpecMount == InitMount /\ [][NextMount]_vars

\* Callers of the device-mapper helpers, all using one struct dm_ioctl.  The
\* device numbers the kernel may store: 0, 0x1234, 0xfd00 and 0xfd05 (major
\* 253, minors 0 and 5), 0x10fd00 (minor 256), 0x12fd34 (minor 308),
\* 0x7fffffff; the flags: none, DM_ACTIVE_PRESENT_FLAG.  LongName has 130
\* characters, three more than the name field holds.
LongName ==
    "dm-xxxxxxxxxxxxxxxxxxxxxxxxxxxxxxxxxxxxxxxxxxxxxxxxxxxxxxxxxxxxxxxxxxxxxxxxxxxxxxxxxxxxxxxxxxxxxxxxxxxxxxxxxxxxxxxxxxxxxxxxxxxxyyy"
DmNames == {"", "system", "vendor", LongName}
DmRawDevs == {0, 4660, 64768, 64773, 1113344, 1244468, 2147483647}
DmAnswers ==
    {[ret |-> -1, dev |-> 0, flags |-> 0]}
    \cup {[ret |-> 0, dev |-> d, flags |-> f] : d \in DmRawDevs, f \in {0, 32}}

InitDm ==
    /\ Idle
    /\ initial_mount_fstab_return_code = -1
    /\ late_import_paths = <<>>
    /\ services = [s \in Services |-> {"main"}]
    /\ is_apex_updatable = FALSE
    /\ io = NoIo
    /\ out_dev_name \in {"", "/dev/block/by-name/system"}
    /\ recorded_outcome = "none"

\* One call of a helper that returns r; inv.io is the buffer as the caller
\* passed it, result.ok is the bool the helper returns.
DmCall(function, name, r) ==
    /\ pc' = "done"
    /\ inv' = [args |-> <<function, name>>, context |-> "", io |-> io]
    /\ trace' = r.fx
    /\ result' = [ok |-> r.ret, msg |-> ""]
    /\ io' = r.io
    /\ UNCHANGED <<initial_mount_fstab_return_code, late_import_paths, services,
                   is_apex_updatable, recorded_outcome>>

CreateDevice ==
    /\ pc = "idle"
    /\ \E name \in DmNames, k \in DmAnswers :
          /\ DmCall("fs_mgr_dm_create_device", name, fs_mgr_dm_create_device(io, name, k))
          /\ UNCHANGED out_dev_name

DestroyDevice ==
    /\ pc = "idle"
    /\ \E name \in DmNames, k \in DmAnswers :
          /\ DmCall("fs_mgr_dm_destroy_device", name, fs_mgr_dm_destroy_device(io, name, k))
          /\ UNCHANGED out_dev_name

ResumeTable ==
    /\ pc = "idle"
    /\ \E name \in DmNames, k \in DmAnswers :
          /\ DmCall("fs_mgr_dm_resume_table", name, fs_mgr_dm_resume_table(io, name, k))
          /\ UNCHANGED out_dev_name

\* One call of fs_mgr_dm_get_device_name(&io, name, fd, out) by a caller
\* whose string is out_dev_name; out = nullptr fails FS_MGR_CHECK
\* (fs_mgr_dm_ioctl.cpp:58), which aborts the process before anything is
\* written.
GetDeviceName ==
    /\ pc = "idle"
    /\ \E name \in DmNames, k \in DmAnswers, out_is_null \in BOOLEAN :
          IF out_is_null
          THEN /\ pc' = "aborted"
               /\ inv' = [args |-> <<"fs_mgr_dm_get_device_name", name>>, context |-> "",
                          io |-> io]
               /\ UNCHANGED <<trace, result, io, out_dev_name,
                              initial_mount_fstab_return_code, late_import_paths,
                              services, is_apex_updatable, recorded_outcome>>
          ELSE /\ DmCall("fs_mgr_dm_get_device_name", name,
                         fs_mgr_dm_get_device_name(io, name, k, out_dev_name))
               /\ out_dev_name' =
                     fs_mgr_dm_get_device_name(io, name, k, out_dev_name).out_dev_name

NextDm ==
    \/ NextCommand
    \/ CreateDevice
    \/ DestroyDevice
    \/ GetDeviceName
    \/ ResumeTable

SpecDm == InitDm /\ [][NextDm]_vars

-----------------------------------------------------------------------------
\* Reading the record of a finished command.

Done == pc = "done"

\* The invocation passed the dispatcher and its handler was entered.
HandlerEntered == \E i \in 1 .. Len(trace) : trace[i].op = "handler"

\* Position of the queue_fs_event call in the trace (0: not called).  Both
\* callers call it at most once and as their last step, so everything after
\* this position was done by the state machine.
QfeAt ==
    IF \E i \in 1 .. Len(trace) : trace[i].op = "queue_fs_event"
    THEN CHOOSE i \in 1 .. Len(trace) : trace[i].op = "queue_fs_event"
    ELSE 0

QfeCalled == Done /\ QfeAt > 0
QfeCode == trace[QfeAt].a
QfeRemount == trace[QfeAt].b = "true"
QfeFx == SubSeq(trace, QfeAt + 1, Len(trace))

\* What the caller returns when queue_fs_event returned Error(m).
QfeFailed(m) == result = Error("queue_fs_event() failed: " \o m)

Calls(fx, op) == SelectSeq(fx, LAMBDA e : e.op = op)

CryptoWrites(fx) ==
    SelectSeq(fx, LAMBDA e : e.op = "property_set"
                              /\ e.a \in {"ro.crypto.state", "ro.crypto.type"})

ServiceOps ==
    {"StartIfNotDisabled", "StartIfPostData", "Stop", "Reset", "ResetIfPostData", "Restart"}

ServiceCalls(fx) == SelectSeq(fx, LAMBDA e : e.op \in ServiceOps)

EnumeratedCodes ==
    {to_string(c) : c \in {FS_MGR_MNTALL_DEV_NEEDS_ENCRYPTION,
                           FS_MGR_MNTALL_DEV_MIGHT_BE_ENCRYPTED,
                           FS_MGR_MNTALL_DEV_NOT_ENCRYPTED,
                           FS_MGR_MNTALL_DEV_NOT_ENCRYPTABLE,
                           FS_MGR_MNTALL_DEV_NEEDS_RECOVERY,
                           FS_MGR_MNTALL_DEV_FILE_ENCRYPTED,
                           FS_MGR_MNTALL_DEV_IS_METADATA_ENCRYPTED,
                           FS_MGR_MNTALL_DEV_NEEDS_METADATA_ENCRYPTION}}

FileCodes ==
    {to_string(c) : c \in {FS_MGR_MNTALL_DEV_FILE_ENCRYPTED,
                           FS_MGR_MNTALL_DEV_IS_METADATA_ENCRYPTED,
                           FS_MGR_MNTALL_DEV_NEEDS_METADATA_ENCRYPTION}}

-----------------------------------------------------------------------------
\* C1: for every registered command, an invocation whose argument count
\* (command name excluded) is below min_args or above max_args ends in a
\* contract-violation error, and the handler is never entered (nothing at all
\* is done on behalf of the command).
C1_ArityEnforced ==
    (/\ Done
     /\ inv.args[1] \in DOMAIN BuiltinFunctionMap
     /\ \/ Len(inv.args) - 1 < BuiltinFunctionMap[inv.args[1]][1]
        \/ Len(inv.args) - 1 > BuiltinFunctionMap[inv.args[1]][2])
    => (/\ ~result.ok
        /\ result.msg = "ArityError"
        /\ ~HandlerEntered
        /\ trace = <<>>)

\* mkdir with seven arguments (one above its maximum of six) was refused.
C1_Witness ==
    /\ Done
    /\ inv.args[1] = "mkdir"
    /\ Len(inv.args) - 1 = 7
    /\ ~result.ok

\* C2: class_start_post_data and class_reset_post_data invoked in a context
\* other than the init context return an error and make no call on any
\* service, whatever the apex-updatable flag and whatever services exist.
C2_PostDataNeedsInitContext ==
    (/\ Done
     /\ inv.args[1] \in {"class_start_post_data", "class_reset_post_data"}
     /\ inv.context # kInitContext)
    => (/\ ~result.ok
        /\ ServiceCalls(trace) = <<>>)

\* class_start_post_data main, from the vendor context, on an apex-updatable
\* platform with a service in class main: entered, and rejected.
C2_Witness ==
    /\ Done
    /\ inv.args = <<"class_start_post_data", "main">>
    /\ inv.context = kVendorContext
    /\ is_apex_updatable
    /\ \E s \in Services : "main" \in services[s]
    /\ HandlerEntered
    /\ ~result.ok

\* C3: the outcome mapping is total with no silent fallthrough: a code that is
\* not one of the eight enumerated codes makes queue_fs_event return the
\* "Invalid code" error with nothing written, queued or triggered, for both
\* values of the re-entry flag; an enumerated code never ends in "Invalid
\* code" and runs one branch only (at most one event is queued).
C3_OutcomeMappingTotal ==
    QfeCalled =>
        IF QfeCode \notin EnumeratedCodes
        THEN /\ QfeFailed("Invalid code: " \o QfeCode)
             /\ QfeFx = <<>>
        ELSE /\ ~QfeFailed("Invalid code: " \o QfeCode)
             /\ Len(Calls(QfeFx, "QueueEventTrigger")) <= 1
             /\ Len(QfeFx) >= 1

\* An unexpected positive code, remembered by mount_all, run again by
\* remount_userdata.
C3_Witness ==
    /\ QfeCalled
    /\ QfeCode = to_string(MaxCode)
    /\ QfeRemount
    /\ ~result.ok

\* C4: NotEncrypted writes exactly ro.crypto.state=unencrypted and
\* NotEncryptable exactly ro.crypto.state=unsupported; neither writes
\* ro.crypto.type; both queue exactly the event nonencrypted, trigger no
\* shutdown and return success, for both values of the re-entry flag.
C4_NotEncryptedRows ==
    (QfeCalled /\ QfeCode \in {to_string(FS_MGR_MNTALL_DEV_NOT_ENCRYPTED),
                               to_string(FS_MGR_MNTALL_DEV_NOT_ENCRYPTABLE)})
    => (/\ Calls(QfeFx, "property_set") =
              <<property_set("ro.crypto.state",
                             IF QfeCode = to_string(FS_MGR_MNTALL_DEV_NOT_ENCRYPTED)
                             THEN "unencrypted" ELSE "unsupported")>>
        /\ Calls(QfeFx, "QueueEventTrigger") = <<QueueEventTrigger("nonencrypted")>>
        /\ Calls(QfeFx, "TriggerShutdown") = <<>>
        /\ result.ok)

\* NotEncryptable on a re-entry.
C4_Witness ==
    /\ QfeCalled
    /\ QfeCode = to_string(FS_MGR_MNTALL_DEV_NOT_ENCRYPTABLE)
    /\ QfeRemount
    /\ result.ok

\* C5: when not a re-entry, NeedsBlockEncryption writes no property and queues
\* exactly encrypt; MightBeBlockEncrypted writes ro.crypto.state=encrypted and
\* ro.crypto.type=block and queues exactly defaultcrypto; both return
\* success and trigger no shutdown.
C5_BlockEncryptionRows ==
    (QfeCalled /\ ~QfeRemount) =>
        /\ QfeCode = to_string(FS_MGR_MNTALL_DEV_NEEDS_ENCRYPTION) =>
              /\ Calls(QfeFx, "property_set") = <<>>
              /\ Calls(QfeFx, "QueueEventTrigger") = <<QueueEventTrigger("encrypt")>>
              /\ Calls(QfeFx, "TriggerShutdown") = <<>>
              /\ result.ok
        /\ QfeCode = to_string(FS_MGR_MNTALL_DEV_MIGHT_BE_ENCRYPTED) =>
              /\ Calls(QfeFx, "property_set") =
                    <<property_set("ro.crypto.state", "encrypted"),
                      property_set("ro.crypto.type", "block")>>
              /\ Calls(QfeFx, "QueueEventTrigger") = <<QueueEventTrigger("defaultcrypto")>>
              /\ Calls(QfeFx, "TriggerShutdown") = <<>>
              /\ result.ok

\* mount_all saw MightBeBlockEncrypted.
C5_Witness ==
    /\ QfeCalled
    /\ ~QfeRemount
    /\ QfeCode = to_string(FS_MGR_MNTALL_DEV_MIGHT_BE_ENCRYPTED)
    /\ inv.args[1] = "mount_all"
    /\ result.ok

\* C6: for FileEncrypted, MetadataEncrypted and NeedsMetadataEncryption, when
\* not a re-entry, the keyring installation is the first thing the state
\* machine does; when it succeeds the machine then writes
\* ro.crypto.state=encrypted, ro.crypto.type=file and queues one nonencrypted
\* event, in that order and identically for the three outcomes.
C6_KeyringFirst ==
    (QfeCalled /\ ~QfeRemount /\ QfeCode \in FileCodes) =>
        /\ QfeFx[1].op = "FscryptInstallKeyring"
        /\ QfeFx[1].b = "ok" =>
              /\ QfeFx = <<Fx("FscryptInstallKeyring", "", "ok"),
                           property_set("ro.crypto.state", "encrypted"),
                           property_set("ro.crypto.type", "file"),
                           QueueEventTrigger("nonencrypted")>>
              /\ result.ok

\* mount_all saw MetadataEncrypted and the keyring was installed.
C6_Witness ==
    /\ QfeCalled
    /\ ~QfeRemount
    /\ QfeCode = to_string(FS_MGR_MNTALL_DEV_IS_METADATA_ENCRYPTED)
    /\ Calls(QfeFx, "FscryptInstallKeyring") = <<Fx("FscryptInstallKeyring", "", "ok")>>
    /\ result.ok

\* C7: for the same three outcomes when not a re-entry, a failed keyring
\* installation is a hard error: queue_fs_event returns an error, neither
\* ro.crypto.state nor ro.crypto.type is written, no event is queued, and
\* mount_all fails.
C7_KeyringFailureIsHard ==
    (/\ QfeCalled
     /\ ~QfeRemount
     /\ QfeCode \in FileCodes
     /\ Fx("FscryptInstallKeyring", "", "fail") \in {QfeFx[i] : i \in 1 .. Len(QfeFx)})
    => (/\ QfeFailed("FscryptInstallKeyring() failed")
        /\ inv.args[1] = "mount_all"
        /\ CryptoWrites(QfeFx) = <<>>
        /\ Calls(QfeFx, "QueueEventTrigger") = <<>>)

\* mount_all saw FileEncrypted and the keyring installation failed.
C7_Witness ==
    /\ QfeCalled
    /\ QfeCode = to_string(FS_MGR_MNTALL_DEV_FILE_ENCRYPTED)
    /\ Calls(QfeFx, "FscryptInstallKeyring") = <<Fx("FscryptInstallKeyring", "", "fail")>>
    /\ inv.args[1] = "mount_all"
    /\ ~result.ok

\* C8: on a remount_userdata re-entry with FileEncrypted, MetadataEncrypted or
\* NeedsMetadataEncryption the keyring installation is never invoked, and
\* ro.crypto.state=encrypted, ro.crypto.type=file and the nonencrypted event
\* are still produced and success returned.
C8_ReentrySkipsKeyring ==
    (QfeCalled /\ QfeRemount /\ QfeCode \in FileCodes) =>
        /\ Calls(trace, "FscryptInstallKeyring") = <<>>
        /\ QfeFx = <<property_set("ro.crypto.state", "encrypted"),
                     property_set("ro.crypto.type", "file"),
                     QueueEventTrigger("nonencrypted")>>
        /\ inv.args[1] = "remount_userdata"
        /\ result.ok

\* remount_userdata re-ran NeedsMetadataEncryption.
C8_Witness ==
    /\ QfeCalled
    /\ QfeRemount
    /\ QfeCode = to_string(FS_MGR_MNTALL_DEV_NEEDS_METADATA_ENCRYPTION)
    /\ result.ok

\* C9: a remount_userdata whose remembered outcome is NeedsBlockEncryption
\* never performs the remount of userdata; over the whole command the shutdown
\* trigger fires exactly once and no property is written before it fires.
\* (Stated for the invocations that get past the too-early check and the
\* fstab read.)
C9_RemountOnFdeNeverMounts ==
    (/\ Done
     /\ inv.args[1] = "remount_userdata"
     /\ HandlerEntered
     /\ Fx("ReadDefaultFstab", "", "ok") \in {trace[i] : i \in 1 .. Len(trace)}
     /\ initial_mount_fstab_return_code = FS_MGR_MNTALL_DEV_NEEDS_ENCRYPTION)
    => (/\ Calls(trace, "fs_mgr_remount_userdata_into_checkpointing") = <<>>
        /\ Len(Calls(trace, "TriggerShutdown")) = 1
        /\ \A i \in 1 .. Len(trace) :
              trace[i].op = "property_set" =>
                  \E j \in 1 .. i - 1 : trace[j].op = "TriggerShutdown")

\* C10: a re-entry forbids the encryption-needed branches: with the re-entry
\* flag set and outcome NeedsBlockEncryption or MightBeBlockEncrypted a fatal
\* shutdown is triggered and the normal effects of the branch do not occur: no
\* encrypt or defaultcrypto event is queued and neither ro.crypto.state nor
\* ro.crypto.type is written.
C10_ReentryForbidsBlockBranches ==
    (/\ QfeCalled
     /\ QfeRemount
     /\ QfeCode \in {to_string(FS_MGR_MNTALL_DEV_NEEDS_ENCRYPTION),
                     to_string(FS_MGR_MNTALL_DEV_MIGHT_BE_ENCRYPTED)})
    => (/\ Calls(QfeFx, "TriggerShutdown") # <<>>
        /\ Calls(QfeFx, "QueueEventTrigger") = <<>>
        /\ CryptoWrites(QfeFx) = <<>>)

\* The shutdown requests among the calls fx: the direct trigger (pid 1) and
\* the sys.powerctl property (any other process), builtins.cpp:146-150.
ShutdownRequests(fx) ==
    SelectSeq(fx, LAMBDA e : \/ e.op = "TriggerShutdown"
                             \/ e.op = "property_set" /\ e.a = "sys.powerctl")

\* C11: for outcome NeedsRecoveryWipe the state machine first asks whether a
\* GSI is running.  If one is, it returns an error and does nothing else: no
\* bootloader message, no shutdown request.  Otherwise it writes the bootloader
\* message --wipe_data once, and a shutdown is requested exactly when that
\* write succeeded; a failed write returns an error.  In every case no
\* ro.crypto.* property is written and no event trigger is queued.
C11_NeedsRecoveryWipe ==
    (QfeCalled /\ QfeCode = to_string(FS_MGR_MNTALL_DEV_NEEDS_RECOVERY)) =>
        /\ CryptoWrites(QfeFx) = <<>>
        /\ Calls(QfeFx, "QueueEventTrigger") = <<>>
        /\ Len(QfeFx) >= 1
        /\ QfeFx[1].op = "IsGsiRunning"
        /\ IF QfeFx[1].b = "true"
           THEN /\ Len(QfeFx) = 1
                /\ QfeFailed("cannot wipe within GSI")
           ELSE /\ Len(QfeFx) >= 2
                /\ QfeFx[2].op = "write_bootloader_message"
                /\ QfeFx[2].a = "--wipe_data --reason=fs_mgr_mount_all"
                /\ Len(Calls(QfeFx, "write_bootloader_message")) = 1
                /\ IF QfeFx[2].b = "ok"
                   THEN Len(ShutdownRequests(QfeFx)) = 1
                   ELSE /\ ShutdownRequests(QfeFx) = <<>>
                        /\ ~result.ok

\* The bootloader message could not be written and no shutdown was requested.
C11_Witness ==
    /\ QfeCalled
    /\ QfeCode = to_string(FS_MGR_MNTALL_DEV_NEEDS_RECOVERY)
    /\ Fx("write_bootloader_message", "--wipe_data --reason=fs_mgr_mount_all", "fail")
           \in {QfeFx[i] : i \in 1 .. Len(QfeFx)}
    /\ ~result.ok

\* C12: a recovery-reboot decision is terminal: once the NeedsRecoveryWipe path
\* of a mount_all has written the bootloader message and requested the
\* shutdown, control does not come back: the mount_all command never completes
\* with a result.
C12_RecoveryRebootIsTerminal ==
    ~(/\ QfeCalled
      /\ inv.args[1] = "mount_all"
      /\ QfeCode = to_string(FS_MGR_MNTALL_DEV_NEEDS_RECOVERY)
      /\ Calls(QfeFx, "write_bootloader_message") # <<>>
      /\ ShutdownRequests(QfeFx) # <<>>
      /\ result # NoResult)

\* C13: a remount_userdata executed before any mount_all has recorded an
\* outcome fails explicitly and has no effect: no fstab read, no remount, no
\* shutdown trigger, no property, no event (the handler makes no call at all).
C13_RemountTooEarly ==
    (Done /\ inv.args[1] = "remount_userdata" /\ recorded_outcome = "none") =>
        /\ ~result.ok
        /\ HandlerEntered => /\ result = Error("Calling remount_userdata too early")
                              /\ trace = <<Fx("handler", "remount_userdata", "")>>
        /\ \A i \in 1 .. Len(trace) : trace[i].op = "handler"

\* remount_userdata was dispatched to its handler before any outcome was
\* recorded.
C13_Witness ==
    /\ Done
    /\ inv.args = <<"remount_userdata">>
    /\ HandlerEntered
    /\ recorded_outcome = "none"
    /\ result = Error("Calling remount_userdata too early")

C15_FstabReadFailure ==
    [][(/\ pc' = "done"
        /\ inv'.args[1] = "mount_all"
        /\ \E i \in 1 .. Len(trace') :
              trace'[i].op = "ReadFstabFromFile" /\ trace'[i].b = "fail")
       => (/\ ~result'.ok
           /\ trace' = <<Fx("handler", "mount_all", ""),
                         Fx("ReadFstabFromFile", inv'.args[2], "fail")>>
           /\ initial_mount_fstab_return_code' = initial_mount_fstab_return_code
           /\ late_import_paths' = late_import_paths
           /\ recorded_outcome' = recorded_outcome)]_vars

\* The fstab read failed in a mount_all that followed one which had recorded
\* an outcome, with deferred imports still queued.
C15_Witness ==
    /\ Done
    /\ inv.args[1] = "mount_all"
    /\ \E i \in 1 .. Len(trace) :
          trace[i].op = "ReadFstabFromFile" /\ trace[i].b = "fail"
    /\ result = Error("Could not read fstab")
    /\ initial_mount_fstab_return_code = FS_MGR_MNTALL_DEV_NOT_ENCRYPTED
    /\ late_import_paths # <<>>

\* C16: a remount_userdata that gets past its too-early check and its fstab
\* read runs the outcome table with the re-entry flag set, on exactly the code
\* fs_mgr_mount_all returned in the most recent mount_all that processed an
\* outcome; only remount_userdata sets the flag; and the remembered code
\* changes only in a mount_all step, to the code fs_mgr_mount_all returned in
\* that step.
C16_RemountUsesRecordedOutcome ==
    /\ []((/\ Done
           /\ inv.args[1] = "remount_userdata"
           /\ \E i \in 1 .. Len(trace) :
                 trace[i].op = "ReadDefaultFstab" /\ trace[i].b = "ok")
          => (QfeCalled /\ QfeRemount /\ QfeCode = recorded_outcome))
    /\ []((QfeCalled /\ QfeRemount) => inv.args[1] = "remount_userdata")
    /\ [][initial_mount_fstab_return_code' # initial_mount_fstab_return_code
            => (/\ inv'.args[1] = "mount_all"
                /\ \E i \in 1 .. Len(trace') :
                      /\ trace'[i].op = "fs_mgr_mount_all"
                      /\ trace'[i].b = to_string(initial_mount_fstab_return_code')
                /\ recorded_outcome' = to_string(initial_mount_fstab_return_code'))]_vars

\* remount_userdata re-ran the table on a recorded FileEncrypted outcome.
C16_Witness ==
    /\ QfeCalled
    /\ QfeRemount
    /\ inv.args[1] = "remount_userdata"
    /\ recorded_outcome = to_string(FS_MGR_MNTALL_DEV_FILE_ENCRYPTED)
    /\ QfeCode = recorded_outcome

\* Reading a mount_all line: the mode options count from C++ index 2 on
\* (index 1 is the fstab file), the extra paths are the arguments between the
\* fstab file and the first mode option.
ModeOptions == {"--early", "--late"}

LateMode(args) == \E i \in 3 .. Len(args) : args[i] = "--late"

FirstModeOption(args) ==
    IF \E i \in 3 .. Len(args) : args[i] \in ModeOptions
    THEN CHOOSE i \in 3 .. Len(args) :
             /\ args[i] \in ModeOptions
             /\ \A j \in 3 .. i - 1 : args[j] \notin ModeOptions
    ELSE Len(args) + 1

ExtraPaths(args) == SubSeq(args, 3, FirstModeOption(args) - 1)

\* The paths handed to ParseConfig, in order.
Imported(fx) ==
    LET c == Calls(fx, "ParseConfig") IN [i \in 1 .. Len(c) |-> c[i].a]

FstabRead(fx) ==
    \E i \in 1 .. Len(fx) : fx[i].op = "ReadFstabFromFile" /\ fx[i].b = "ok"

VendorNewerThanQ(fx) ==
    \E i \in 1 .. Len(fx) : fx[i].op = "SelinuxGetVendorAndroidVersion" /\ fx[i].b = "gt_q"

\* C17 as stated: a mount_all that read its fstab imports nothing in late
\* mode; otherwise it imports exactly the extra path arguments if there are
\* any, and every path of the queue if there are none.
C17_ImportUnlessLate ==
    [][(pc' = "done" /\ inv'.args[1] = "mount_all" /\ FstabRead(trace'))
       => Imported(trace') =
              IF LateMode(inv'.args) THEN <<>>
              ELSE IF ExtraPaths(inv'.args) # <<>> THEN ExtraPaths(inv'.args)
              ELSE late_import_paths]_vars

\* C17: a mount_all that read its fstab imports nothing in late mode and
\* nothing when the vendor image is newer than Android Q; otherwise it imports
\* exactly the extra path arguments if there are any, and every path of the
\* queue if there are none.
C17_ImportUnlessLateOrNewVendor ==
    [][(pc' = "done" /\ inv'.args[1] = "mount_all" /\ FstabRead(trace'))
       => Imported(trace') =
              IF LateMode(inv'.args) \/ VendorNewerThanQ(trace') THEN <<>>
              ELSE IF ExtraPaths(inv'.args) # <<>> THEN ExtraPaths(inv'.args)
              ELSE late_import_paths]_vars

\* A mount_all with a path after its mode option and none before it imported
\* the queued path.
C17_Witness ==
    /\ Done
    /\ inv.args = <<"mount_all", "/a", "--early", "/b">>
    /\ Imported(trace) = <<"/queued.rc">>
    /\ late_import_paths = <<>>

-----------------------------------------------------------------------------
\* Reading a mount line and the mount(2) calls of the command.

\* The tokens after the (type, source, target) triple.
ExtraTokens(args) == SubSeq(args, 5, Len(args))

FlagNames == {mount_flags[i].name : i \in 1 .. Len(mount_flags)}

\* The table bits of the tokens that are names of the flag table, as a set.
MatchedBits(args) ==
    {mount_flags[i].flag : i \in {j \in 1 .. Len(mount_flags) :
         \E k \in 5 .. Len(args) : args[k] = mount_flags[j].name}}

\* The bitwise OR of a set of values: bit by bit, from the lowest.
RECURSIVE OrOfSet(_)
OrOfSet(S) ==
    IF S \subseteq {0} THEN 0
    ELSE (IF \E v \in S : v % 2 = 1 THEN 1 ELSE 0) + 2 * OrOfSet({v \div 2 : v \in S})

MountCalls == Calls(trace, "mount")

MountRan == Done /\ inv.args[1] = "mount" /\ HandlerEntered

\* C18: every mount(2) call of a mount command is given as flags the bitwise
\* OR of the table bits of all the tokens after the triple that are names of
\* the flag table, whatever their order and however often they occur:
\* noatime, ro, rec give NOATIME|RDONLY|REC, and rw and defaults add no bit.
C18_FlagsAreOrOfTableBits ==
    MountRan =>
        \A i \in 1 .. Len(MountCalls) :
            /\ MountCalls[i].b.flags = OrOfSet(MatchedBits(inv.args))
            /\ ExtraTokens(inv.args) = <<"noatime", "ro", "rec">>
                   => MountCalls[i].b.flags = MS_NOATIME + MS_RDONLY + MS_REC
            /\ MountCalls[i].b.flags =
                   OrOfSet(MatchedBits(SelectSeq(inv.args,
                                                 LAMBDA t : t \notin {"rw", "defaults"})))

\* rec, noatime and rec again were mounted with NOATIME|REC.
C18_Witness ==
    /\ MountRan
    /\ ExtraTokens(inv.args) = <<"rec", "noatime", "rec">>
    /\ Len(MountCalls) = 1
    /\ MountCalls[1].b.flags = MS_NOATIME + MS_REC

\* C19: a token after the triple that is neither a name of the flag table nor
\* "wait", and is not the last argument, is an error: the mount command fails
\* and makes no mount(2) call.
C19_UnmatchedTokenIsError ==
    (/\ MountRan
     /\ \E k \in 5 .. Len(inv.args) - 1 : inv.args[k] \notin FlagNames \cup {"wait"})
    => (~result.ok /\ MountCalls = <<>>)

\* C20: every mount(2) call of a mount command is given as option string the
\* last argument, verbatim, exactly when that argument comes after the triple
\* and is neither a name of the flag table nor "wait"; otherwise it is given
\* no option string.  No other token ever becomes the option string.
C20_OptionsIsFinalArgument ==
    MountRan =>
        \A i \in 1 .. Len(MountCalls) :
            MountCalls[i].b.options =
                IF /\ Len(inv.args) >= 5
                   /\ inv.args[Len(inv.args)] \notin FlagNames \cup {"wait"}
                THEN <<inv.args[Len(inv.args)]>>
                ELSE nullptr

\* A flag followed by a last token that is no flag: that token is the option
\* string of the mount(2) call.
C20_Witness ==
    /\ MountRan
    /\ ExtraTokens(inv.args) = <<"noatime", "wait", "data=ordered">>
    /\ Len(MountCalls) = 1
    /\ MountCalls[1].b.options = <<"data=ordered">>
    /\ MountCalls[1].b.flags = MS_NOATIME

-----------------------------------------------------------------------------
\* The mount command as far as it got: finished, or inside a scan that never
\* ends.
MountEntered ==
    /\ pc \in {"done", "running"}
    /\ inv.args[1] = "mount"
    /\ HandlerEntered

WaitGiven == \E k \in 5 .. Len(inv.args) : inv.args[k] = "wait"

\* The mount(2) failure was dropped by the ENOENT rule.
EnoentIgnored ==
    \E i \in 1 .. Len(trace) : trace[i].op = "GetMinimumLogSeverity" /\ trace[i].b = "INFO"

\* C21: a mount command given "wait" waits once for its source path, then
\* calls mount(2) exactly once whatever the wait returned, and its result
\* follows from the mount(2) call alone.
C21_WaitThenMountOnce ==
    (MountEntered /\ WaitGiven) =>
        /\ pc = "done"
        /\ Len(Calls(trace, "wait_for_file")) = 1
        /\ Calls(trace, "wait_for_file")[1].a.path = inv.args[3]
        /\ Len(MountCalls) = 1
        /\ \E i \in 1 .. Len(trace) - 1 :
              trace[i].op = "wait_for_file" /\ trace[i + 1].op = "mount"
        /\ result.ok <=> (MountCalls[1].b.ret = "ok" \/ EnoentIgnored)

LoopSource == StartsWith(inv.args[3], "loop@")

\* C21: a direct (non-loop) mount command given "wait" waits once for its
\* source path with the 5 second timeout, then calls mount(2) exactly once
\* whatever the wait returned, and its result follows from the mount(2) call
\* alone; a loop@ mount given "wait" does not wait at all.
C21_DirectWaitThenMountOnce ==
    (MountEntered /\ WaitGiven) =>
        IF LoopSource
        THEN Calls(trace, "wait_for_file") = <<>>
        ELSE /\ pc = "done"
             /\ Len(Calls(trace, "wait_for_file")) = 1
             /\ Calls(trace, "wait_for_file")[1].a =
                    [path |-> inv.args[3], timeout |-> kCommandRetryTimeout]
             /\ Len(MountCalls) = 1
             /\ \E i \in 1 .. Len(trace) - 1 :
                   trace[i].op = "wait_for_file" /\ trace[i + 1].op = "mount"
             /\ result.ok <=> (MountCalls[1].b.ret = "ok" \/ EnoentIgnored)

\* The wait timed out, the mount was made all the same and succeeded.
C21_Witness ==
    /\ MountEntered
    /\ WaitGiven
    /\ ~LoopSource
    /\ \E i \in 1 .. Len(trace) : trace[i].op = "wait_for_file" /\ trace[i].b = "timeout"
    /\ Len(MountCalls) = 1
    /\ MountCalls[1].b.ret = "ok"
    /\ result = Ok

LoopDevice(n) == "/dev/block/loop" \o to_string(n)

\* The ioctl op on device tmp was made and returned ret.
Made(op, tmp, ret) ==
    \E i \in 1 .. Len(trace) : trace[i].op = op /\ trace[i].a = tmp /\ trace[i].b = ret

\* The opens of loop devices, in the order made.
LoopOpens == SelectSeq(trace, LAMBDA e : e.op = "open" /\ StartsWith(e.a, "/dev/block/loop"))

\* The calls made on loop device tmp, in the order made.
OnDevice(tmp) ==
    SelectSeq(trace, LAMBDA e : \/ e.op \in {"open", "LOOP_GET_STATUS", "LOOP_SET_FD", "LOOP_CLR_FD"}
                                   /\ e.a = tmp
                                \/ e.op = "mount" /\ e.a.source = tmp)

Ops(s) == [i \in 1 .. Len(s) |-> s[i].op]

\* C22: a loop@ mount opens /dev/block/loop0, loop1, ... in that order, each
\* once; a device whose status query does not fail with ENXIO gets no
\* LOOP_SET_FD and no mount; the mount is made at most once, on the first
\* device whose status query failed with ENXIO and whose LOOP_SET_FD succeeded,
\* directly after that LOOP_SET_FD; every such device is mounted.
C22_LowestUnboundDeviceIsMounted ==
    (MountEntered /\ LoopSource) =>
        /\ \A k \in 1 .. Len(LoopOpens) : LoopOpens[k].a = LoopDevice(k - 1)
        /\ Len(MountCalls) <= 1
        /\ \A k \in 1 .. Len(LoopOpens) :
              LET on == OnDevice(LoopOpens[k].a)
              IN  \/ LoopOpens[k].b.ret = "fail" /\ Ops(on) = <<"open">>
                  \/ /\ Ops(on) = <<"open", "LOOP_GET_STATUS">>
                     /\ on[2].b # "ENXIO"
                  \/ /\ Ops(on) = <<"open", "LOOP_GET_STATUS", "LOOP_SET_FD">>
                     /\ on[2].b = "ENXIO"
                     /\ on[3].b = "fail"
                  \/ /\ Len(on) >= 4
                     /\ SubSeq(Ops(on), 1, 4) = <<"open", "LOOP_GET_STATUS", "LOOP_SET_FD", "mount">>
                     /\ on[2].b = "ENXIO"
                     /\ on[3].b = "ok"
                     /\ k = Len(LoopOpens)
        /\ \A i \in 1 .. Len(trace) :
              trace[i].op = "mount" =>
                  /\ i > 1
                  /\ trace[i - 1].op = "LOOP_SET_FD"
                  /\ trace[i - 1].a = trace[i].a.source
                  /\ trace[i - 1].b = "ok"

\* loop0 and loop1 are bound, loop2 is not: the mount is made on loop2.
C22_Witness ==
    /\ MountEntered
    /\ LoopSource
    /\ Made("LOOP_GET_STATUS", LoopDevice(0), "ok")
    /\ Made("LOOP_GET_STATUS", LoopDevice(1), "ok")
    /\ Made("LOOP_SET_FD", LoopDevice(2), "ok")
    /\ Len(MountCalls) = 1
    /\ MountCalls[1].a.source = LoopDevice(2)

BindFailed == \E i \in 1 .. Len(trace) : trace[i].op = "LOOP_SET_FD" /\ trace[i].b = "fail"

\* C23 as stated: a loop@ mount command in which a LOOP_SET_FD failed makes
\* no mount(2) call.
C23_NoMountAfterBindFailure ==
    (MountEntered /\ LoopSource /\ BindFailed) => MountCalls = <<>>

\* C23: when LOOP_SET_FD fails on a loop device, that device is not mounted
\* and the next call of the command, if it makes one, opens the device of
\* the next index; a mount made later in the command is on another device.
C23_BindFailureMovesToNextDevice ==
    (MountEntered /\ LoopSource) =>
        \A i \in 1 .. Len(trace) :
            (trace[i].op = "LOOP_SET_FD" /\ trace[i].b = "fail") =>
                /\ \A j \in 1 .. Len(MountCalls) : MountCalls[j].a.source # trace[i].a
                /\ i < Len(trace) =>
                       /\ trace[i + 1].op = "open"
                       /\ \E n \in 0 .. MaxLoops :
                             /\ trace[i].a = LoopDevice(n)
                             /\ trace[i + 1].a = LoopDevice(n + 1)

\* LOOP_SET_FD failed on loop0 and the command mounted loop1.
C23_Witness ==
    /\ MountEntered
    /\ LoopSource
    /\ Made("LOOP_SET_FD", LoopDevice(0), "fail")
    /\ Made("LOOP_SET_FD", LoopDevice(1), "ok")
    /\ Len(MountCalls) = 1
    /\ MountCalls[1].a.source = LoopDevice(1)

\* Every open() of the command succeeded and no LOOP_SET_FD did: the backing
\* file is open and each device probed was bound, unreadable or unbindable.
NoFreeDevice ==
    /\ \A i \in 1 .. Len(trace) : trace[i].op = "open" => trace[i].b.ret = "ok"
    /\ \A i \in 1 .. Len(trace) : trace[i].op = "LOOP_SET_FD" => trace[i].b = "fail"

\* C24: a loop@ mount whose backing file opens and whose probed devices all
\* open but are bound or cannot be bound never returns: the command stays in
\* the scan for ever; a loop@ mount returns only after a LOOP_SET_FD that
\* succeeded or an open() that failed, and never with "out of loopback devices".
C24_ScanHasNoBound ==
    /\ [](( MountEntered /\ LoopSource) =>
            /\ (pc = "running") <=> NoFreeDevice
            /\ result # Error("out of loopback devices"))
    /\ [][pc = "running" => pc' = "running"]_vars

\* loop0 .. loop2 were probed, none could be bound, and the command is still
\* in the scan.
C24_Witness ==
    /\ pc = "running"
    /\ LoopSource
    /\ Len(LoopOpens) = MaxLoops
    /\ Made("LOOP_GET_STATUS", LoopDevice(0), "ok")
    /\ Made("LOOP_SET_FD", LoopDevice(1), "fail")

DirectMountFailed ==
    /\ MountRan
    /\ ~LoopSource
    /\ Len(MountCalls) = 1
    /\ MountCalls[1].b.ret # "ok"

\* C25: when the mount(2) call of a direct mount fails with ENOENT, the
\* minimum log severity is read and the command returns success if it is
\* above DEBUG and the error "mount() failed: ENOENT" if it is DEBUG; when
\* the call fails with another errno the command returns "mount() failed: "
\* followed by that errno without reading the severity.
C25_EnoentIgnoredAboveDebug ==
    DirectMountFailed =>
        IF MountCalls[1].b.ret = "ENOENT"
        THEN /\ Len(Calls(trace, "GetMinimumLogSeverity")) = 1
             /\ result = IF Made("GetMinimumLogSeverity", "", "DEBUG")
                          THEN Error("mount() failed: ENOENT")
                          ELSE Ok
        ELSE /\ Calls(trace, "GetMinimumLogSeverity") = <<>>
             /\ result = Error("mount() failed: " \o MountCalls[1].b.ret)

\* mount(2) failed with ENOENT at a severity above DEBUG: success.
C25_Witness ==
    /\ DirectMountFailed
    /\ MountCalls[1].b.ret = "ENOENT"
    /\ Made("GetMinimumLogSeverity", "", "INFO")
    /\ result = Ok

\* mount(2) failed with ENOENT at DEBUG severity: the error is returned.
C25_WitnessDebug ==
    /\ DirectMountFailed
    /\ Made("GetMinimumLogSeverity", "", "DEBUG")
    /\ result = Error("mount() failed: ENOENT")

\* The class command name was dispatched to its handler and has returned.
ClassRan(name) ==
    /\ Done
    /\ inv.args[1] = name
    /\ HandlerEntered

\* persist.init.dont_start_class.<class> was read for the class of the
\* command and had the value v.
DontStartRead(v) ==
    \E i \in 1 .. Len(trace) :
        /\ trace[i].op = "GetBoolProperty"
        /\ trace[i].a = "persist.init.dont_start_class." \o inv.args[2]
        /\ trace[i].b = v

\* The number of calls the command made on service s.
TimesCalled(s) ==
    Cardinality({i \in 1 .. Len(ServiceCalls(trace)) : ServiceCalls(trace)[i].a = s})

\* Operation op, and no other, was applied once to every service whose
\* class-tag set contains the class of the command, and to no other service.
AppliedToClass(op) ==
    /\ \A i \in 1 .. Len(ServiceCalls(trace)) : ServiceCalls(trace)[i].op = op
    /\ \A s \in Services : TimesCalled(s) = IF inv.args[2] \in services[s] THEN 1 ELSE 0

Members == {s \in Services : inv.args[2] \in services[s]}

StartFailed(s) ==
    \E i \in 1 .. Len(trace) : trace[i].op \in ServiceOps /\ trace[i].a = s /\ trace[i].b = "fail"

\* C26: class_start for a class whose persist.init.dont_start_class.<class>
\* property is true makes no call on any service and returns success.
C26_DontStartClassIsNoOp ==
    (ClassRan("class_start") /\ DontStartRead("true")) =>
        /\ ServiceCalls(trace) = <<>>
        /\ result = Ok

\* class_start of a class with members, the property set: nothing started.
C26_Witness ==
    /\ ClassRan("class_start")
    /\ DontStartRead("true")
    /\ Members # {}
    /\ ServiceCalls(trace) = <<>>
    /\ result = Ok

\* C27: class_start for a class whose do-not-start property is not true
\* calls StartIfNotDisabled once on every service of the class and on no
\* other service, whichever of those calls fail, and returns success.
C27_ClassStartStartsEveryMember ==
    (ClassRan("class_start") /\ ~DontStartRead("true")) =>
        /\ DontStartRead("false")
        /\ AppliedToClass("StartIfNotDisabled")
        /\ result = Ok

\* Both services are in the class, the start of the first one failed, the
\* second one was started after it and the command succeeded.
C27_Witness ==
    /\ ClassRan("class_start")
    /\ Members = Services
    /\ Len(ServiceCalls(trace)) = 2
    /\ ServiceCalls(trace)[1].b = "fail"
    /\ ServiceCalls(trace)[2].a # ServiceCalls(trace)[1].a
    /\ result = Ok

ClassOperation ==
    [class_stop |-> "Stop", class_reset |-> "Reset", class_restart |-> "Restart"]

\* C28 as stated: class_stop, class_reset and class_restart apply their
\* operation once to every service of the class and to no other, and return
\* success, whatever the do-not-start property of the class.
C28_ClassOperationAppliedToClass ==
    \A name \in DOMAIN ClassOperation :
        ClassRan(name) =>
            /\ AppliedToClass(ClassOperation[name])
            /\ result = Ok

\* C28: class_stop and class_reset apply Stop and Reset once to every service
\* of the class and to no other, without reading the do-not-start property;
\* class_restart reads it and does the same with Restart unless it is true,
\* in which case it calls no service; all three return success.
C28_RestartIsGatedToo ==
    \A name \in DOMAIN ClassOperation :
        ClassRan(name) =>
            /\ result = Ok
            /\ IF name = "class_restart"
               THEN /\ DontStartRead("true") \/ DontStartRead("false")
                    /\ IF DontStartRead("true")
                       THEN ServiceCalls(trace) = <<>>
                       ELSE AppliedToClass("Restart")
               ELSE /\ Calls(trace, "GetBoolProperty") = <<>>
                    /\ AppliedToClass(ClassOperation[name])

\* class_restart of a class with members, the property set: nothing restarted.
C28_Witness ==
    /\ ClassRan("class_restart")
    /\ DontStartRead("true")
    /\ Members # {}
    /\ ServiceCalls(trace) = <<>>
    /\ result = Ok

\* class_stop of a class that has one of the two services stopped that one.
C28_WitnessStop ==
    /\ ClassRan("class_stop")
    /\ Cardinality(Members) = 1
    /\ Len(ServiceCalls(trace)) = 1
    /\ ServiceCalls(trace)[1].a \in Members

PostDataOperation ==
    [class_start_post_data |-> "StartIfPostData", class_reset_post_data |-> "ResetIfPostData"]

\* C29: in the init context class_start_post_data and class_reset_post_data
\* return success; they call no service when the platform has no updatable
\* APEX, and otherwise call StartIfPostData, ResetIfPostData once on every
\* service of the class and on no other service.
C29_PostDataNeedsUpdatableApex ==
    \A name \in DOMAIN PostDataOperation :
        (ClassRan(name) /\ inv.context = kInitContext) =>
            /\ result = Ok
            /\ IF is_apex_updatable
               THEN AppliedToClass(PostDataOperation[name])
               ELSE ServiceCalls(trace) = <<>>

\* No updatable APEX: class_reset_post_data of a class with members did nothing.
C29_Witness ==
    /\ ClassRan("class_reset_post_data")
    /\ inv.context = kInitContext
    /\ ~is_apex_updatable
    /\ Members # {}
    /\ ServiceCalls(trace) = <<>>
    /\ result = Ok

\* Updatable APEX: class_start_post_data started both members of the class.
C29_WitnessUpdatable ==
    /\ ClassRan("class_start_post_data")
    /\ inv.context = kInitContext
    /\ is_apex_updatable
    /\ Members = Services
    /\ Len(ServiceCalls(trace)) = 2

GetDeviceNameRan ==
    /\ Done
    /\ inv.args[1] = "fs_mgr_dm_get_device_name"

\* The device number the DM_DEV_STATUS query of the call stored.
RawDev == trace[1].b.dev

\* The low 8 bits of raw, and bits 20..31 of raw placed above them.
Minor(raw) == (raw % 256) + 256 * ((raw \div 1048576) % 4096)

\* C30: fs_mgr_dm_get_device_name returns true after a DM_DEV_STATUS query
\* that succeeded, and the output name is then "/dev/block/dm-" followed by
\* the decimal text of (raw & 0xff) | ((raw >> 12) & 0xfff00), "dm-52" for
\* raw 0x1234; it returns false after a query that failed, and the output
\* name is then what it was before the call.
C30_DeviceNameIsDecodedMinor ==
    /\ [](GetDeviceNameRan =>
            IF trace[1].b.ret = 0
            THEN /\ result.ok
                 /\ out_dev_name = "/dev/block/dm-" \o to_string(Minor(RawDev))
                 /\ RawDev = 4660 => out_dev_name = "/dev/block/dm-52"
                 /\ RawDev = 1113344 => out_dev_name = "/dev/block/dm-256"
            ELSE ~result.ok)
    /\ [][(GetDeviceNameRan' /\ ~result'.ok) => out_dev_name' = out_dev_name]_vars

\* The status query stored 0x1234 and the name is /dev/block/dm-52.
C30_Witness ==
    /\ GetDeviceNameRan
    /\ trace[1].b.ret = 0
    /\ RawDev = 4660
    /\ result.ok
    /\ out_dev_name = "/dev/block/dm-52"

\* The status query failed and the name of an earlier call is still there.
C30_WitnessFailure ==
    /\ GetDeviceNameRan
    /\ trace[1].b.ret # 0
    /\ ~result.ok
    /\ out_dev_name = "/dev/block/dm-308"

DmFunctions ==
    {"fs_mgr_dm_create_device", "fs_mgr_dm_destroy_device",
     "fs_mgr_dm_get_device_name", "fs_mgr_dm_resume_table"}

DmRan ==
    /\ Done
    /\ inv.args[1] \in DmFunctions

\* The block the helper handed to the kernel.
Handed == trace[1].a.io

\* C31: whatever the shared buffer held when a device-mapper helper was
\* called, the block it hands to the kernel has version (4,0,0), data_size
\* and data_start 312, zero in the fields the kernel writes back, and as its
\* name the requested name when that has at most 127 characters and its
\* first 127 characters otherwise.
C31_RequestBlockIsFresh ==
    DmRan =>
        /\ Len(trace) = 1
        /\ Handed.version = <<4, 0, 0>>
        /\ Handed.data_size = 312
        /\ Handed.data_start = 312
        /\ Handed.dev = 0
        /\ Handed.flags = 0
        /\ Len(Handed.name) <= 127
        /\ Len(Handed.name) = IF Len(inv.args[2]) <= 127 THEN Len(inv.args[2]) ELSE 127
        /\ Handed.name = SubSeq(inv.args[2], 1, Len(Handed.name))

\* A request with the empty name on a buffer that still held a 127-character
\* name and what the kernel wrote for an earlier request: neither is in
\* the block handed over.
C31_Witness ==
    /\ DmRan
    /\ inv.args[2] = ""
    /\ Len(inv.io.name) = 127
    /\ inv.io.dev # 0
    /\ inv.io.flags # 0
    /\ Handed.name = ""
    /\ Handed.dev = 0

\* The 130-character name was cut to 127 characters.
C31_WitnessTruncated ==
    /\ DmRan
    /\ inv.args[1] = "fs_mgr_dm_resume_table"
    /\ Len(inv.args[2]) = 130
    /\ Len(Handed.name) = 127

RemountRan ==
    /\ Done
    /\ inv.args[1] = "remount_userdata"
    /\ HandlerEntered

\* C32: a remount_userdata returns the "too early" error exactly when no
\* mount_all that processed its outcome has run before it, whatever code
\* fs_mgr_mount_all returned in that mount_all.
C32_TooEarlyIffNoOutcomeRecorded ==
    RemountRan =>
        ((result = Error("Calling remount_userdata too early"))
            <=> (recorded_outcome = "none"))

InsmodEntered ==
    /\ pc \in {"done", "aborted"}
    /\ inv.args[1] = "insmod"
    /\ HandlerEntered

\* C33: a handler entered with an argument count inside its registered
\* bounds reads only argument positions below the size of the argument vector
\* (the command name is position 0).
C33_ArgumentReadsInBounds ==
    InsmodEntered =>
        \A i \in 1 .. Len(trace) : trace[i].op = "args" => trace[i].a < Len(inv.args)

\* mount_all was entered with --early among the arguments after the fstab file.
EarlyMountAll ==
    /\ Done
    /\ inv.args[1] = "mount_all"
    /\ HandlerEntered
    /\ \E k \in 3 .. Len(inv.args) : inv.args[k] = "--early"

\* What fs_mgr_mount_all returned in the command ("": it was not called).
MountAllCode ==
    IF Calls(trace, "fs_mgr_mount_all") = <<>> THEN ""
    ELSE Calls(trace, "fs_mgr_mount_all")[1].b

\* C34: a mount_all with --early among its options does not call the outcome
\* state machine, writes neither ro.crypto property, queues no event, asks
\* for no recovery or shutdown, returns success whenever fs_mgr_mount_all was
\* called, whatever it returned, and leaves the remembered code as it was.
C34_EarlyMountAllSkipsOutcome ==
    /\ [](EarlyMountAll =>
            /\ ~QfeCalled
            /\ CryptoWrites(trace) = <<>>
            /\ Calls(trace, "QueueEventTrigger") = <<>>
            /\ Calls(trace, "write_bootloader_message") = <<>>
            /\ ShutdownRequests(trace) = <<>>
            /\ Calls(trace, "fs_mgr_mount_all") # <<>> => result = Ok
            /\ Calls(trace, "fs_mgr_mount_all") = <<>> =>
                   result = Error("Could not read fstab"))
    /\ [][EarlyMountAll' =>
            /\ initial_mount_fstab_return_code' = initial_mount_fstab_return_code
            /\ recorded_outcome' = recorded_outcome]_vars

\* An early mount_all in which fs_mgr_mount_all returned NeedsRecoveryWipe
\* succeeded, with an outcome of an earlier mount_all still remembered.
C34_Witness ==
    /\ EarlyMountAll
    /\ MountAllCode = to_string(FS_MGR_MNTALL_DEV_NEEDS_RECOVERY)
    /\ result = Ok
    /\ initial_mount_fstab_return_code = FS_MGR_MNTALL_DEV_NOT_ENCRYPTED

\* An early mount_all in which fs_mgr_mount_all failed succeeded.
C34_WitnessFailure ==
    /\ EarlyMountAll
    /\ MountAllCode = to_string(-1)
    /\ result = Ok

\* The LOOP_SET_FD calls of the command that succeeded.
Bound == SelectSeq(trace, LAMBDA e : e.op = "LOOP_SET_FD" /\ e.b = "ok")

\* C35: a loop@ mount binds at most one loop device; when it returns an
\* error after a LOOP_SET_FD that succeeded, the failed mount(2) on that
\* device is followed by LOOP_CLR_FD on the same device as the last call of
\* the command; when it returns success it has bound exactly one device and
\* issued no LOOP_CLR_FD.
C35_FailedLoopMountUnbinds ==
    (MountEntered /\ LoopSource) =>
        /\ Len(Bound) <= 1
        /\ (pc = "done" /\ ~result.ok /\ Bound # <<>>) =>
               /\ Len(trace) >= 2
               /\ trace[Len(trace) - 1].op = "mount"
               /\ trace[Len(trace) - 1].a.source = Bound[1].a
               /\ trace[Len(trace) - 1].b.ret # "ok"
               /\ trace[Len(trace)].op = "LOOP_CLR_FD"
               /\ trace[Len(trace)].a = Bound[1].a
        /\ (pc = "done" /\ result.ok) =>
               /\ Len(Bound) = 1
               /\ Calls(trace, "LOOP_CLR_FD") = <<>>
               /\ Len(MountCalls) = 1
               /\ MountCalls[1].a.source = Bound[1].a

\* mount(2) on the bound loop1 failed and LOOP_CLR_FD was issued on loop1.
C35_Witness ==
    /\ MountEntered
    /\ LoopSource
    /\ pc = "done"
    /\ ~result.ok
    /\ Made("LOOP_SET_FD", LoopDevice(1), "ok")
    /\ Len(MountCalls) = 1
    /\ MountCalls[1].b.ret = "EINVAL"
    /\ Made("LOOP_CLR_FD", LoopDevice(1), "ok")

\* The events the outcome state machine queued in this call.
QfeEvents == Calls(QfeFx, "QueueEventTrigger")

\* C36: a call of the outcome state machine queues at most one event; it
\* queues one exactly when it returns success on a code other than
\* NeedsRecoveryWipe; when it returns an error it has queued no event and
\* written neither ro.crypto property; and when it writes ro.crypto.type it
\* has written ro.crypto.state = "encrypted" before, in the same call.
C36_OneEventPerSuccessfulOutcome ==
    QfeCalled =>
        /\ Len(QfeEvents) <= 1
        /\ (Len(QfeEvents) = 1)
              <=> (result.ok /\ QfeCode # to_string(FS_MGR_MNTALL_DEV_NEEDS_RECOVERY))
        /\ ~result.ok => (QfeEvents = <<>> /\ CryptoWrites(QfeFx) = <<>>)
        /\ \A i \in 1 .. Len(QfeFx) :
              (QfeFx[i].op = "property_set" /\ QfeFx[i].a = "ro.crypto.type") =>
                  \E j \in 1 .. i - 1 : QfeFx[j] = property_set("ro.crypto.state", "encrypted")

\* NeedsRecoveryWipe returned success (the reboot was requested) and queued
\* no event.
C36_Witness ==
    /\ QfeCalled
    /\ QfeCode = to_string(FS_MGR_MNTALL_DEV_NEEDS_RECOVERY)
    /\ result.ok
    /\ QfeEvents = <<>>

\* A failed keyring installation: an error, no event, no property.
C36_WitnessError ==
    /\ QfeCalled
    /\ QfeCode = to_string(FS_MGR_MNTALL_DEV_FILE_ENCRYPTED)
    /\ ~result.ok
    /\ QfeEvents = <<>>
    /\ CryptoWrites(QfeFx) = <<>>

\* MightBeEncrypted on a re-entry: one event, after both properties.
C36_WitnessEvent ==
    /\ QfeCalled
    /\ QfeRemount
    /\ QfeCode = to_string(FS_MGR_MNTALL_DEV_MIGHT_BE_ENCRYPTED)
    /\ Len(QfeEvents) = 1
    /\ Len(CryptoWrites(QfeFx)) = 2

====
